---- MODULE Spec2Model ----
(***************************************************************************)
(* Verification model of the glpbud backend: the nutrition / exercise      *)
(* parsers with their fallbacks (tools/nutrition.py, tools/exercise.py),   *)
(* the safety guard (tools/coaching.py), the coach handlers (app/main.py)  *)
(* and the worker's tiered model call (worker/main.py).                    *)
(*                                                                         *)
(* Conventions                                                             *)
(*  - Python str values are TLA+ strings; substring tests, lower() and     *)
(*    concatenation are computed character by character.                   *)
(*  - confidence is kept in hundredths (0.6 is 60), macro values in tenths *)
(*    of a gram (3.6 g is 36); kcal are integers.                          *)
(*  - the text the upstream model answers with is represented by what      *)
(*    json.loads yields on it: a decode failure, a JSON value that is not  *)
(*    an object, or an object whose fields are JSON values.                *)
(***************************************************************************)
EXTENDS Integers, Sequences, FiniteSets, TLC

(***************************************************************************)
(* Bounds of the model                                                     *)
(***************************************************************************)
\* number of text fragments a user message is assembled from
MaxSegs == 2
\* number of content blocks in one model response of the agentic coach
MaxBlocks == 2
\* number of items the model may list in one meal / exercise response
MaxItems == 2

(***************************************************************************)
(* Python string primitives                                                *)
(***************************************************************************)
\* `sub in s`
Contains(sub, s) ==
    \E i \in 1..(Len(s) - Len(sub) + 1) : SubSeq(s, i, i + Len(sub) - 1) = sub

\* any(p in s for p in ps)
ContainsAny(ps, s) == \E p \in ps : Contains(p, s)

UpperChars == "ABCDEFGHIJKLMNOPQRSTUVWXYZ"
LowerChars == "abcdefghijklmnopqrstuvwxyz"

LowerChar(c) ==
    IF \E i \in 1..26 : SubSeq(UpperChars, i, i) = c
    THEN LET i == CHOOSE j \in 1..26 : SubSeq(UpperChars, j, j) = c
         IN  SubSeq(LowerChars, i, i)
    ELSE c

\* str.lower()
RECURSIVE Lower(_)
Lower(s) ==
    IF Len(s) = 0 THEN ""
    ELSE LowerChar(SubSeq(s, 1, 1)) \o Lower(SubSeq(s, 2, Len(s)))

\* all concatenations of 1..n fragments
RECURSIVE Concats(_, _)
Concats(frags, n) ==
    IF n = 0 THEN {""}
    ELSE LET shorter == Concats(frags, n - 1)
         IN  shorter \cup {a \o b : a \in frags, b \in shorter}

(***************************************************************************)
(* app/llm.py : claude_call and log_tool_run                               *)
(***************************************************************************)
\* What the environment does to one claude_call:
\*   client : the module-level client exists (an API key is configured)
\*   api    : client.messages.create answers ("ok") or raises ("raise")
\*   log    : log_tool_run succeeds ("ok"), its insert fails ("insert_fail",
\*            caught inside log_tool_run) or it cannot build its database
\*            client ("env_fail", raised before its try block)
Upstreams ==
    [client : BOOLEAN, api : {"ok", "raise"}, log : {"ok", "insert_fail", "env_fail"}]

\* log_tool_run: TRUE iff it raises
log_tool_run_raises(up) == up.log = "env_fail"

\* claude_call: "mock" (no client: the canned MockMessage is returned),
\* "ok" (the model's response is returned) or "raise"
claude_call(up) ==
    IF ~up.client THEN "mock"
    ELSE IF up.api = "raise" THEN "raise"
    ELSE IF log_tool_run_raises(up) THEN "raise"
    ELSE "ok"

(***************************************************************************)
(* tools/coaching.py : SafetyGuard                                         *)
(***************************************************************************)
medical_keywords ==
    {"dose", "medication", "side effect", "nausea", "vomiting",
     "heart", "blood pressure", "diabetes", "pregnant", "surgery",
     "ozempic", "wegovy", "mounjaro", "zepbound", "semaglutide", "tirzepatide"}

extreme_calories == {"1200", "1000", "800", "500"}

blocking_phrases ==
    {"should i take", "can i stop", "change my dose", "increase dose", "decrease dose"}

EducationalDisclaimer ==
    "This information is for educational purposes only. Always consult your healthcare provider for medical advice."
LowCalorieDisclaimer ==
    "Very low calorie diets should only be followed under medical supervision."
MedicalAdviceDisclaimer ==
    "I cannot provide specific medical advice. Please consult your healthcare provider."

\* A JSON value of the classifier's answer, by its Python truth value
Truthy(v) == v \in {"true", "str"}

\* any(phrase in message_lower for phrase in [...])
fallback_blocks(message_lower) == ContainsAny(blocking_phrases, message_lower)

\* the mutated fallback: the phrases are looked up in the message as typed
_fallback_check_cased(message) ==
    LET message_lower == Lower(message)
        d1 == IF ContainsAny(medical_keywords, message_lower)
              THEN <<EducationalDisclaimer>> ELSE <<>>
        d2 == IF ContainsAny(extreme_calories, message)
              THEN <<LowCalorieDisclaimer>> ELSE <<>>
        blocked == fallback_blocks(message)
        d3 == IF blocked THEN <<MedicalAdviceDisclaimer>> ELSE <<>>
    IN  [allow       |-> IF blocked THEN "false" ELSE "true",
         dtag        |-> "list",
         disclaimers |-> d1 \o d2 \o d3,
         path        |-> "fallback"]

\* the mutated fallback: a medical keyword blocks as a phrase does
_fallback_check_keywords(message) ==
    LET message_lower == Lower(message)
        d1 == IF ContainsAny(medical_keywords, message_lower)
              THEN <<EducationalDisclaimer>> ELSE <<>>
        d2 == IF ContainsAny(extreme_calories, message)
              THEN <<LowCalorieDisclaimer>> ELSE <<>>
        blocked == fallback_blocks(message_lower) \/ d1 # <<>>
        d3 == IF blocked THEN <<MedicalAdviceDisclaimer>> ELSE <<>>
    IN  [allow       |-> IF blocked THEN "false" ELSE "true",
         dtag        |-> "list",
         disclaimers |-> d1 \o d2 \o d3,
         path        |-> "fallback"]

\* SafetyGuard._fallback_check
_fallback_check(message) ==
    LET message_lower == Lower(message)
        d1 == IF ContainsAny(medical_keywords, message_lower)
              THEN <<EducationalDisclaimer>> ELSE <<>>
        d2 == IF ContainsAny(extreme_calories, message)
              THEN <<LowCalorieDisclaimer>> ELSE <<>>
        blocked == fallback_blocks(message_lower)
        d3 == IF blocked THEN <<MedicalAdviceDisclaimer>> ELSE <<>>
    IN  [allow       |-> IF blocked THEN "false" ELSE "true",
         dtag        |-> "list",
         disclaimers |-> d1 \o d2 \o d3,
         path        |-> "fallback"]

\* The classifier's answers: json.loads fails ("notjson"), yields a value
\* without .get ("nonobject"), or yields an object.  allow is the JSON value
\* under "allow" ("missing" when the key is absent, "str" for a non-empty
\* string); dtag / disclaimers describe the value under "disclaimers".
SafetyBodies ==
    [kind : {"notjson", "nonobject"}, allow : {"missing"}, dtag : {"missing"},
     disclaimers : {<<>>}]
    \cup
    [kind : {"object"}, allow : {"true", "false", "null", "str", "missing"},
     dtag : {"list"}, disclaimers : {<<>>, <<"Consult your healthcare provider">>}]
    \cup
    [kind : {"object"}, allow : {"true", "false", "missing"},
     dtag : {"missing", "null"}, disclaimers : {<<>>}]

\* SafetyGuard.check
model_disclaimers(body) ==
    IF body.dtag = "missing" THEN <<>> ELSE body.disclaimers

check(message, up, body) ==
    LET st == claude_call(up)
    IN  IF st = "raise" THEN _fallback_check(message)
        ELSE IF st = "mock" \/ body.kind = "notjson" THEN _fallback_check(message)
        ELSE IF body.kind = "nonobject" THEN _fallback_check(message)
        ELSE [allow       |-> IF body.allow = "missing" THEN "true" ELSE body.allow,
              dtag        |-> IF body.dtag = "missing" THEN "list" ELSE body.dtag,
              disclaimers |-> model_disclaimers(body),
              path        |-> "model"]

(***************************************************************************)
(* Arithmetic helpers                                                      *)
(***************************************************************************)
Abs(n) == IF n < 0 THEN -n ELSE n

\* int(x) for x = n/d : truncation toward zero
TruncDiv(n, d) == IF n >= 0 THEN n \div d ELSE -((-n) \div d)

\* round(n/d) to the nearest integer, ties to the even neighbour (n >= 0)
RoundHalfEven(n, d) ==
    LET q == n \div d
        r == n % d
    IN  IF 2 * r < d THEN q
        ELSE IF 2 * r > d THEN q + 1
        ELSE IF q % 2 = 0 THEN q ELSE q + 1

RECURSIVE SumOver(_, _)
\* sum(f(item) for item in items), left to right
SumOver(items, field) ==
    IF Len(items) = 0 THEN 0
    ELSE items[1][field] + SumOver(Tail(items), field)

(***************************************************************************)
(* Regular-expression primitives used by _detect_portion_size              *)
(***************************************************************************)
CharAt(s, i) == IF 1 <= i /\ i <= Len(s) THEN SubSeq(s, i, i) ELSE ""
IsDigit(c) == Len(c) = 1 /\ Contains(c, "0123456789")
IsWordChar(c) == Len(c) = 1 /\ (IsDigit(c) \/ Contains(c, LowerChars) \/ Contains(c, UpperChars) \/ c = "_")
IsSpace(c) == c \in {" ", "\t", "\n"}
StartsWithAt(s, i, w) == i + Len(w) - 1 <= Len(s) /\ SubSeq(s, i, i + Len(w) - 1) = w

RECURSIVE DigitRun(_, _)
\* length of the longest run of digits of s that starts at position i
DigitRun(s, i) ==
    IF i <= Len(s) /\ IsDigit(CharAt(s, i)) THEN 1 + DigitRun(s, i + 1) ELSE 0

RECURSIVE SpaceRun(_, _)
SpaceRun(s, i) ==
    IF i <= Len(s) /\ IsSpace(CharAt(s, i)) THEN 1 + SpaceRun(s, i + 1) ELSE 0

\* the first non-zero position of a sequence of booleans, 0 when there is none
FirstIndex(hits) ==
    IF \E i \in 1..Len(hits) : hits[i]
    THEN CHOOSE j \in 1..Len(hits) : hits[j] /\ \A k \in 1..(j - 1) : ~hits[k]
    ELSE 0

\* length matched by \d+(?:\.\d+)? at position i, d1 being the length of \d+
WithFraction(s, i, d1) ==
    IF CharAt(s, i + d1) = "." /\ DigitRun(s, i + d1 + 1) > 0
    THEN d1 + 1 + DigitRun(s, i + d1 + 1)
    ELSE d1

\* length matched by \b(\d+(?:\.\d+)?) at position i, 0 when it does not match
NumberLenAt(s, i) ==
    IF i > Len(s) \/ ~IsDigit(CharAt(s, i)) THEN 0
    ELSE IF i > 1 /\ IsWordChar(CharAt(s, i - 1)) THEN 0
    ELSE WithFraction(s, i, DigitRun(s, i))

DigitVal(c) == CHOOSE d \in 0..9 : CharAt("0123456789", d + 1) = c

RECURSIVE IntVal(_)
IntVal(ds) ==
    IF Len(ds) = 0 THEN 0
    ELSE 10 * IntVal(SubSeq(ds, 1, Len(ds) - 1)) + DigitVal(CharAt(ds, Len(ds)))

\* float(m) in hundredths, for m matched by \d+(?:\.\d+)? with at most two decimals
FracVal(frac) ==
    IF Len(frac) = 0 THEN 0
    ELSE IF Len(frac) = 1 THEN 10 * IntVal(frac)
    ELSE IntVal(SubSeq(frac, 1, 2))

FloatVal(m) ==
    100 * IntVal(SubSeq(m, 1, DigitRun(m, 1))) + FracVal(SubSeq(m, DigitRun(m, 1) + 2, Len(m)))

portion_units == {"slice", "piece", "serving", "portion", "cup", "item"}

\* re.search(r'\b(\d+(?:\.\d+)?)\s*(?:slice|piece|serving|portion|cup|item)', s)
UnitNumberMatchAt(s, i) ==
    \E n \in {NumberLenAt(s, i)} :
        /\ n > 0
        /\ \E w \in portion_units : StartsWithAt(s, i + n + SpaceRun(s, i + n), w)

\* re.search(r'\b(\d+(?:\.\d+)?)\s', s)
SpaceNumberMatchAt(s, i) ==
    \E n \in {NumberLenAt(s, i)} : n > 0 /\ IsSpace(CharAt(s, i + n))

\* group(1) of a match whose number starts at position i, "" when i is 0
NumberAt(s, i) == IF i = 0 THEN "" ELSE SubSeq(s, i, i + NumberLenAt(s, i) - 1)

\* group(1) of the leftmost match, "" when there is none
FirstUnitNumber(s) ==
    NumberAt(s, FirstIndex([j \in 1..Len(s) |-> UnitNumberMatchAt(s, j)]))

FirstSpaceNumber(s) ==
    NumberAt(s, FirstIndex([j \in 1..Len(s) |-> SpaceNumberMatchAt(s, j)]))

(***************************************************************************)
(* tools/nutrition.py : TextNutrition fallback matcher                     *)
(***************************************************************************)
\* food_db, in declaration order; macros in tenths of a gram
food_db ==
    <<
     [name |-> "chicken breast", qty |-> 100, unit |-> "g", kcal |-> 165, protein_g |-> 310, carbs_g |-> 0, fat_g |-> 36],
     [name |-> "chicken thigh", qty |-> 100, unit |-> "g", kcal |-> 209, protein_g |-> 260, carbs_g |-> 0, fat_g |-> 110],
     [name |-> "salmon", qty |-> 100, unit |-> "g", kcal |-> 208, protein_g |-> 200, carbs_g |-> 0, fat_g |-> 130],
     [name |-> "tuna", qty |-> 100, unit |-> "g", kcal |-> 132, protein_g |-> 280, carbs_g |-> 0, fat_g |-> 10],
     [name |-> "beef", qty |-> 100, unit |-> "g", kcal |-> 250, protein_g |-> 260, carbs_g |-> 0, fat_g |-> 150],
     [name |-> "pork", qty |-> 100, unit |-> "g", kcal |-> 242, protein_g |-> 270, carbs_g |-> 0, fat_g |-> 140],
     [name |-> "turkey", qty |-> 100, unit |-> "g", kcal |-> 135, protein_g |-> 300, carbs_g |-> 0, fat_g |-> 10],
     [name |-> "egg", qty |-> 50, unit |-> "g", kcal |-> 78, protein_g |-> 60, carbs_g |-> 6, fat_g |-> 50],
     [name |-> "tofu", qty |-> 100, unit |-> "g", kcal |-> 76, protein_g |-> 80, carbs_g |-> 20, fat_g |-> 50],
     [name |-> "rice", qty |-> 158, unit |-> "g", kcal |-> 206, protein_g |-> 43, carbs_g |-> 450, fat_g |-> 4],
     [name |-> "brown rice", qty |-> 158, unit |-> "g", kcal |-> 216, protein_g |-> 50, carbs_g |-> 450, fat_g |-> 18],
     [name |-> "pasta", qty |-> 140, unit |-> "g", kcal |-> 220, protein_g |-> 80, carbs_g |-> 430, fat_g |-> 13],
     [name |-> "quinoa", qty |-> 185, unit |-> "g", kcal |-> 222, protein_g |-> 80, carbs_g |-> 390, fat_g |-> 36],
     [name |-> "oatmeal", qty |-> 234, unit |-> "g", kcal |-> 154, protein_g |-> 60, carbs_g |-> 270, fat_g |-> 30],
     [name |-> "bread", qty |-> 28, unit |-> "g", kcal |-> 79, protein_g |-> 23, carbs_g |-> 140, fat_g |-> 10],
     [name |-> "bagel", qty |-> 95, unit |-> "g", kcal |-> 245, protein_g |-> 100, carbs_g |-> 480, fat_g |-> 15],
     [name |-> "tortilla", qty |-> 30, unit |-> "g", kcal |-> 94, protein_g |-> 25, carbs_g |-> 150, fat_g |-> 25],
     [name |-> "pizza", qty |-> 107, unit |-> "g", kcal |-> 266, protein_g |-> 110, carbs_g |-> 330, fat_g |-> 100],
     [name |-> "pizza slice", qty |-> 107, unit |-> "g", kcal |-> 266, protein_g |-> 110, carbs_g |-> 330, fat_g |-> 100],
     [name |-> "pepperoni pizza", qty |-> 107, unit |-> "g", kcal |-> 298, protein_g |-> 130, carbs_g |-> 360, fat_g |-> 120],
     [name |-> "burger", qty |-> 150, unit |-> "g", kcal |-> 295, protein_g |-> 170, carbs_g |-> 240, fat_g |-> 140],
     [name |-> "cheeseburger", qty |-> 154, unit |-> "g", kcal |-> 335, protein_g |-> 170, carbs_g |-> 330, fat_g |-> 150],
     [name |-> "fries", qty |-> 115, unit |-> "g", kcal |-> 365, protein_g |-> 40, carbs_g |-> 480, fat_g |-> 170],
     [name |-> "hot dog", qty |-> 98, unit |-> "g", kcal |-> 290, protein_g |-> 110, carbs_g |-> 240, fat_g |-> 170],
     [name |-> "apple", qty |-> 182, unit |-> "g", kcal |-> 95, protein_g |-> 5, carbs_g |-> 250, fat_g |-> 3],
     [name |-> "banana", qty |-> 118, unit |-> "g", kcal |-> 105, protein_g |-> 13, carbs_g |-> 270, fat_g |-> 4],
     [name |-> "orange", qty |-> 154, unit |-> "g", kcal |-> 62, protein_g |-> 12, carbs_g |-> 150, fat_g |-> 2],
     [name |-> "strawberries", qty |-> 152, unit |-> "g", kcal |-> 49, protein_g |-> 10, carbs_g |-> 120, fat_g |-> 5],
     [name |-> "grapes", qty |-> 92, unit |-> "g", kcal |-> 62, protein_g |-> 6, carbs_g |-> 160, fat_g |-> 2],
     [name |-> "broccoli", qty |-> 91, unit |-> "g", kcal |-> 31, protein_g |-> 26, carbs_g |-> 60, fat_g |-> 3],
     [name |-> "spinach", qty |-> 30, unit |-> "g", kcal |-> 7, protein_g |-> 9, carbs_g |-> 10, fat_g |-> 1],
     [name |-> "carrots", qty |-> 128, unit |-> "g", kcal |-> 52, protein_g |-> 12, carbs_g |-> 120, fat_g |-> 3],
     [name |-> "salad", qty |-> 200, unit |-> "g", kcal |-> 35, protein_g |-> 20, carbs_g |-> 70, fat_g |-> 5],
     [name |-> "tomato", qty |-> 180, unit |-> "g", kcal |-> 32, protein_g |-> 16, carbs_g |-> 70, fat_g |-> 4],
     [name |-> "milk", qty |-> 244, unit |-> "ml", kcal |-> 146, protein_g |-> 80, carbs_g |-> 110, fat_g |-> 80],
     [name |-> "yogurt", qty |-> 245, unit |-> "g", kcal |-> 149, protein_g |-> 90, carbs_g |-> 120, fat_g |-> 80],
     [name |-> "greek yogurt", qty |-> 170, unit |-> "g", kcal |-> 100, protein_g |-> 170, carbs_g |-> 60, fat_g |-> 0],
     [name |-> "cheese", qty |-> 28, unit |-> "g", kcal |-> 113, protein_g |-> 70, carbs_g |-> 4, fat_g |-> 90],
     [name |-> "chips", qty |-> 28, unit |-> "g", kcal |-> 152, protein_g |-> 20, carbs_g |-> 150, fat_g |-> 100],
     [name |-> "cookies", qty |-> 25, unit |-> "g", kcal |-> 120, protein_g |-> 15, carbs_g |-> 170, fat_g |-> 50],
     [name |-> "chocolate", qty |-> 28, unit |-> "g", kcal |-> 155, protein_g |-> 20, carbs_g |-> 170, fat_g |-> 90],
     [name |-> "ice cream", qty |-> 66, unit |-> "g", kcal |-> 137, protein_g |-> 23, carbs_g |-> 160, fat_g |-> 70],
     [name |-> "coffee", qty |-> 240, unit |-> "ml", kcal |-> 2, protein_g |-> 3, carbs_g |-> 0, fat_g |-> 0],
     [name |-> "soda", qty |-> 355, unit |-> "ml", kcal |-> 139, protein_g |-> 0, carbs_g |-> 390, fat_g |-> 0],
     [name |-> "beer", qty |-> 355, unit |-> "ml", kcal |-> 154, protein_g |-> 16, carbs_g |-> 130, fat_g |-> 0],
     [name |-> "wine", qty |-> 147, unit |-> "ml", kcal |-> 123, protein_g |-> 1, carbs_g |-> 40, fat_g |-> 0],
     [name |-> "sushi", qty |-> 100, unit |-> "g", kcal |-> 142, protein_g |-> 60, carbs_g |-> 210, fat_g |-> 40],
     [name |-> "tacos", qty |-> 100, unit |-> "g", kcal |-> 226, protein_g |-> 130, carbs_g |-> 180, fat_g |-> 120],
     [name |-> "burrito", qty |-> 219, unit |-> "g", kcal |-> 298, protein_g |-> 130, carbs_g |-> 360, fat_g |-> 120],
     [name |-> "ramen", qty |-> 250, unit |-> "g", kcal |-> 188, protein_g |-> 50, carbs_g |-> 270, fat_g |-> 70],
     [name |-> "pad thai", qty |-> 400, unit |-> "g", kcal |-> 429, protein_g |-> 170, carbs_g |-> 640, fat_g |-> 130]
    >>

\* word_to_num in declaration order, values in hundredths
word_to_num ==
    << <<"one", 100>>, <<"two", 200>>, <<"three", 300>>, <<"four", 400>>, <<"five", 500>>,
       <<"six", 600>>, <<"seven", 700>>, <<"eight", 800>>, <<"nine", 900>>, <<"ten", 1000>>,
       <<"eleven", 1100>>, <<"twelve", 1200>>, <<"thirteen", 1300>>, <<"fourteen", 1400>>,
       <<"fifteen", 1500>>, <<"sixteen", 1600>>, <<"seventeen", 1700>>, <<"eighteen", 1800>>,
       <<"nineteen", 1900>>, <<"twenty", 2000>>,
       <<"half", 50>>, <<"quarter", 25>>, <<"double", 200>>, <<"triple", 300>> >>

\* size multiplier, in tenths
size_multiplier(text) ==
    IF ContainsAny({"large", "big", "huge", "jumbo", "xl"}, text) THEN 14
    ELSE IF ContainsAny({"small", "little", "mini", "tiny", "xs"}, text) THEN 7
    ELSE IF ContainsAny({"medium", "regular", "normal"}, text) THEN 10
    ELSE 10

\* quantity multiplier, in hundredths
\* the value of the first word of word_to_num found in the text, 1.0 otherwise
worded_quantity(i) == IF i = 0 THEN 100 ELSE word_to_num[i][2]

\* a number followed by whitespace counts when 0.1 <= float(number) <= 20
ranged_quantity(space_number, worded) ==
    IF space_number # "" /\ 10 <= FloatVal(space_number) /\ FloatVal(space_number) <= 2000
    THEN FloatVal(space_number)
    ELSE worded

\* the patterns in the order they are tried
digit_quantity(unit_number, space_number, worded) ==
    IF unit_number # "" THEN FloatVal(unit_number)
    ELSE ranged_quantity(space_number, worded)

quantity_multiplier(text) ==
    IF Contains("half", text) \/ Contains("0.5", text) THEN 50
    ELSE IF Contains("1.5", text) \/ Contains("one and a half", text) THEN 150
    ELSE digit_quantity(
             FirstUnitNumber(Lower(text)),
             FirstSpaceNumber(text),
             worded_quantity(FirstIndex([j \in 1..Len(word_to_num) |->
                                            Contains(word_to_num[j][1], Lower(text))])))

\* _detect_portion_size(text)['general'], in thousandths
_detect_portion_size(text) == quantity_multiplier(text) * size_multiplier(text)

variations(food_name) ==
    CASE food_name = "pizza"  -> {"pie", "za"}
      [] food_name = "fries"  -> {"french fries", "chips"}
      [] food_name = "soda"   -> {"soft drink", "pop", "coke"}
      [] food_name = "burger" -> {"hamburger", "cheeseburger"}
      [] OTHER -> {}

_food_matches(food_name, text) ==
    \/ Contains(food_name, text)
    \/ Contains(food_name \o "s", text)
    \/ ContainsAny(variations(food_name), text)

\* multiplier applied to a matched entry, in thousandths
entry_multiplier(food_name, text_lower) ==
    IF Contains("pizza", food_name) /\ ContainsAny({"large", "big"}, text_lower) THEN 1500
    ELSE IF Contains("pizza", food_name) /\ ContainsAny({"small", "thin"}, text_lower) THEN 700
    ELSE _detect_portion_size(text_lower)

\* round(value * multiplier, 1) for value in tenths: the result in tenths.
\* The product is rounded exactly here; Python rounds the binary float, which
\* can differ from this on an exact tie (1.3 * 0.5).
scaled(value, multiplier) == RoundHalfEven(value * multiplier, 1000)

size_suffix(multiplier) ==
    IF multiplier > 1200 THEN " (large)" ELSE IF multiplier < 800 THEN " (small)" ELSE ""

UnrecognizedItem ==
    [name |-> "unrecognized food", qty |-> 1000, unit |-> "serving",
     kcal |-> 0, protein_g |-> 0, carbs_g |-> 0, fat_g |-> 0]

\* _fallback_parse(text).  qty is in thousandths of the unit, kcal_tenths is
\* the value handed to MealItem's integer field kcal before validation.
matched_index(text_lower) ==
    FirstIndex([j \in 1..Len(food_db) |-> _food_matches(food_db[j].name, text_lower)])

\* base['kcal'] * multiplier of the entry food_db[i], rounded to one decimal
matched_kcal_tenths(base, text_lower) ==
    scaled(10 * base.kcal, entry_multiplier(base.name, text_lower))

fallback_kcal_tenths(text) ==
    IF matched_index(Lower(text)) = 0 THEN 0
    ELSE matched_kcal_tenths(food_db[matched_index(Lower(text))], Lower(text))

\* MealItem(kcal=<float>): an integral value is accepted; a fractional one is
\* truncated by a lax validator and rejected (ValidationError) by a strict one
item_kcal_rejected(kcal_tenths, strict_int) == strict_int /\ kcal_tenths % 10 # 0

\* the MealItem built from a matched entry of food_db
scaled_item(base, multiplier) ==
    [name      |-> base.name \o size_suffix(multiplier),
     qty       |-> base.qty * multiplier,
     unit      |-> base.unit,
     kcal      |-> TruncDiv(scaled(10 * base.kcal, multiplier), 10),
     protein_g |-> scaled(base.protein_g, multiplier),
     carbs_g   |-> scaled(base.carbs_g, multiplier),
     fat_g     |-> scaled(base.fat_g, multiplier)]

matched_item(base, text_lower) == scaled_item(base, entry_multiplier(base.name, text_lower))

_fallback_parse(text) ==
    IF matched_index(Lower(text)) = 0 THEN <<UnrecognizedItem>>
    ELSE <<matched_item(food_db[matched_index(Lower(text))], Lower(text))>>

_fallback_parse_raises(text, strict_int) ==
    item_kcal_rejected(fallback_kcal_tenths(text), strict_int)

(***************************************************************************)
(* The model's JSON answer to a parse request                              *)
(***************************************************************************)
\* A JSON value read with float() / int(): a number, null, a non-numeric
\* string, or an absent key.  v is in tenths for a nutrition value and in
\* hundredths for a confidence.
Num(v) == [t |-> "num", v |-> v]
JNull == [t |-> "null", v |-> 0]
JStr == [t |-> "str", v |-> 0]
JMissing == [t |-> "missing", v |-> 0]

\* float(x) / int(x): "type" is a TypeError, "value" a ValueError
conv_error(tok) ==
    IF tok.t = "null" THEN "type" ELSE IF tok.t = "str" THEN "value" ELSE "none"

\* data.get(key, default) followed by the conversion, in tenths
conv_value(tok, default) == IF tok.t = "missing" THEN default ELSE tok.v

FirstError(errs) ==
    IF \E i \in 1..Len(errs) : errs[i] # "none"
    THEN errs[CHOOSE j \in 1..Len(errs) :
                  errs[j] # "none" /\ \A k \in 1..(j - 1) : errs[k] = "none"]
    ELSE "none"

\* the exception raised while one element of "items" is converted
item_error(item_data) ==
    IF item_data.kind = "nondict" THEN "attr"
    ELSE FirstError(<<conv_error(item_data.qty), conv_error(item_data.kcal),
                      conv_error(item_data.protein_g), conv_error(item_data.carbs_g),
                      conv_error(item_data.fat_g)>>)

items_error(items) == FirstError([i \in 1..Len(items) |-> item_error(items[i])])

\* MealItem(name=..., qty=float(...), kcal=int(...), ...)
to_meal_item(item_data) ==
    [name      |-> item_data.name,
     qty       |-> 100 * conv_value(item_data.qty, 1000),
     unit      |-> "g",
     kcal      |-> TruncDiv(conv_value(item_data.kcal, 0), 10),
     protein_g |-> conv_value(item_data.protein_g, 0),
     carbs_g   |-> conv_value(item_data.carbs_g, 0),
     fat_g     |-> conv_value(item_data.fat_g, 0)]

to_meal_items(items) == [i \in 1..Len(items) |-> to_meal_item(items[i])]

\* the mutated sum: the last item is left out
sum_totals_short(items) ==
    LET seen == SubSeq(items, 1, Len(items) - 1)
    IN  [kcal      |-> SumOver(seen, "kcal"),
         protein_g |-> SumOver(seen, "protein_g"),
         carbs_g   |-> SumOver(seen, "carbs_g"),
         fat_g     |-> SumOver(seen, "fat_g")]

\* MacroTotals(kcal=sum(...), protein_g=sum(...), carbs_g=sum(...), fat_g=sum(...))
sum_totals(items) ==
    [kcal      |-> SumOver(items, "kcal"),
     protein_g |-> SumOver(items, "protein_g"),
     carbs_g   |-> SumOver(items, "carbs_g"),
     fat_g     |-> SumOver(items, "fat_g")]

ZeroTotals == [kcal |-> 0, protein_g |-> 0, carbs_g |-> 0, fat_g |-> 0]

\* schemas.MacroTotals: every field is declared ge=0
MacroTotals_valid(totals) ==
    totals.kcal >= 0 /\ totals.protein_g >= 0 /\ totals.carbs_g >= 0 /\ totals.fat_g >= 0

\* schemas.MealParse: confidence is declared ge=0, le=1
MealParse_valid(confidence) == 0 <= confidence /\ confidence <= 100

\* the value a parser hands back
Returned(items, totals, confidence, qtag, questions, low_confidence, branch) ==
    [status |-> "ok", items |-> items, exercises |-> <<>>, totals |-> totals,
     total_duration_min |-> 0, confidence |-> confidence, qtag |-> qtag,
     questions |-> questions, low_confidence |-> low_confidence, branch |-> branch]

\* an exception leaves the parser
Raised(branch) ==
    [status |-> "raise", items |-> <<>>, exercises |-> <<>>, totals |-> ZeroTotals,
     total_duration_min |-> 0, confidence |-> 0, qtag |-> "none",
     questions |-> <<>>, low_confidence |-> FALSE, branch |-> branch]

\* which handler the answer of the model leads to: "none" (converted),
\* "inner" (except (json.JSONDecodeError, KeyError, ValueError)) or
\* "outer" (except Exception)
handler_of(err) ==
    IF err = "none" THEN "none" ELSE IF err = "value" THEN "inner" ELSE "outer"

(***************************************************************************)
(* tools/nutrition.py : TextNutrition.parse                                *)
(***************************************************************************)
text_questions(items, confidence) ==
    IF confidence < 20
    THEN <<"Could not recognize this food automatically.",
           "Please provide more details like portion size or specific food type.",
           "Example: 'large pepperoni pizza slice' or 'grilled chicken breast 200g'">>
    ELSE IF confidence < 60
    THEN IF Len(items) > 0 /\ items[1].name # "unrecognized food"
         THEN <<"Is this the correct food: " \o items[1].name \o "?",
                "Any sides, sauces, or additional items?">>
         ELSE <<"Please provide more specific food details for better accuracy.">>
    ELSE IF confidence < 80
    THEN <<"Was this the complete meal? Any sides or drinks?">>
    ELSE <<>>

\* the mutated flag: low_confidence set at 0.6 too
text_finish_at(items, confidence, branch) ==
    LET totals == sum_totals(items)
    IN  IF ~MacroTotals_valid(totals) THEN Raised(branch)
        ELSE IF ~MealParse_valid(confidence) THEN Raised(branch)
        ELSE Returned(items, totals, confidence, "list",
                      text_questions(items, confidence), confidence <= 60, branch)

\* the end of TextNutrition.parse: totals, questions and the MealParse constructor
text_finish(items, confidence, branch) ==
    LET totals == sum_totals(items)
    IN  IF ~MacroTotals_valid(totals) THEN Raised(branch)
        ELSE IF ~MealParse_valid(confidence) THEN Raised(branch)
        ELSE Returned(items, totals, confidence, "list",
                      text_questions(items, confidence), confidence < 60, branch)

text_response_error(st, body) ==
    IF st = "raise" THEN "outer"
    ELSE IF st = "mock" \/ body.kind = "notjson" THEN "inner"
    ELSE IF body.kind = "nonobject" THEN "outer"
    ELSE IF body.items_tag = "null" THEN "outer"
    ELSE LET e == items_error(body.items)
         IN  IF e # "none" THEN handler_of(e)
             ELSE handler_of(conv_error(body.confidence))

\* the two except branches of TextNutrition.parse
text_except(branch, fallback, fallback_raises) ==
    IF fallback_raises THEN Raised(branch)
    ELSE IF branch = "inner" THEN text_finish(fallback, 50, "inner")
    ELSE text_finish(fallback,
                     IF fallback[1].name = "unrecognized food" THEN 10 ELSE 40,
                     "outer")

text_try(branch, text, body, strict_int) ==
    IF branch = "none"
    THEN text_finish(to_meal_items(body.items), conv_value(body.confidence, 70), "model")
    ELSE text_except(branch, _fallback_parse(text), _fallback_parse_raises(text, strict_int))

text_parse(text, up, body, strict_int) ==
    text_try(text_response_error(claude_call(up), body), text, body, strict_int)

(***************************************************************************)
(* tools/nutrition.py : VisionNutrition.parse                              *)
(***************************************************************************)
StartsWith(s, prefix) == StartsWithAt(s, 1, prefix)

_fallback_vision_parse ==
    Returned(<< [name |-> "unidentified food from photo", qty |-> 1000, unit |-> "serving",
                 kcal |-> 0, protein_g |-> 0, carbs_g |-> 0, fat_g |-> 0] >>,
             ZeroTotals, 10, "list",
             <<"Could not identify food from photo automatically.",
               "Please provide more details about what's in the image.",
               "Example: 'chicken breast with rice and vegetables' or 'large pepperoni pizza slice'">>,
             TRUE, "fallback")

no_food_parse ==
    Returned(<<>>, ZeroTotals, 0, "list",
             <<"No food items detected in this image. Please try again with a clearer food photo.">>,
             TRUE, "no_food")

vision_no_food_items(body) ==
    \/ body.items_tag \in {"missing", "null"}
    \/ Len(body.items) = 0

\* `not is_food or not data.get("items")`
vision_no_food(body) ==
    \/ body.is_food \in {"false", "null"}
    \/ body.items_tag \in {"missing", "null"}
    \/ Len(body.items) = 0

vision_finish(items, confidence) ==
    LET totals == sum_totals(items)
    IN  IF ~MacroTotals_valid(totals) THEN Raised("model")
        ELSE IF ~MealParse_valid(confidence) THEN Raised("model")
        ELSE Returned(items, totals, confidence,
                      IF confidence < 70 THEN "list" ELSE "none",
                      IF confidence < 70 THEN <<"Can you confirm all items in the photo?">> ELSE <<>>,
                      confidence < 60, "model")

vision_parse(image_url, up, body) ==
    IF ~StartsWith(image_url, "data:image") THEN _fallback_vision_parse
    ELSE LET st == claude_call(up)
         IN  IF st = "raise" THEN _fallback_vision_parse
             ELSE IF st = "mock" \/ body.kind = "notjson" THEN _fallback_vision_parse
             ELSE IF body.kind = "nonobject" THEN _fallback_vision_parse
             ELSE IF vision_no_food(body) THEN no_food_parse
             ELSE IF items_error(body.items) # "none" THEN _fallback_vision_parse
             ELSE IF conv_error(body.confidence) # "none" THEN _fallback_vision_parse
             ELSE vision_finish(to_meal_items(body.items),
                                conv_value(body.confidence, 70))

(***************************************************************************)
(* tools/nutrition.py : TextNutrition.fix_parse                            *)
(***************************************************************************)
\* `return original_parse`
return_original(original_parse) ==
    Returned(original_parse.items, original_parse.totals, original_parse.confidence,
             original_parse.qtag, original_parse.questions,
             original_parse.low_confidence, "original")

fix_parse(original_parse, up, body) ==
    LET st == claude_call(up)
    IN  IF st # "ok" \/ body.kind # "object" THEN return_original(original_parse)
        ELSE IF body.items_tag = "null" THEN return_original(original_parse)
        ELSE IF items_error(body.items) # "none" THEN return_original(original_parse)
        ELSE LET items == to_meal_items(body.items)
                 totals == sum_totals(items)
                 confidence == conv_value(body.confidence, 80)
             IN  IF ~MacroTotals_valid(totals) THEN return_original(original_parse)
                 ELSE IF conv_error(body.confidence) # "none"
                 THEN return_original(original_parse)
                 ELSE IF ~MealParse_valid(confidence) THEN return_original(original_parse)
                 ELSE Returned(items, totals, confidence, "list", <<>>,
                               confidence < 60, "model")

(***************************************************************************)
(* tools/exercise.py : ExerciseEstimator.parse_exercise_text               *)
(***************************************************************************)
\* exercise_types in declaration order, met in tenths
exercise_types ==
    << [name |-> "running",    category |-> "cardio",      met |-> 80],
       [name |-> "jogging",    category |-> "cardio",      met |-> 60],
       [name |-> "walking",    category |-> "cardio",      met |-> 35],
       [name |-> "cycling",    category |-> "cardio",      met |-> 65],
       [name |-> "swimming",   category |-> "cardio",      met |-> 70],
       [name |-> "yoga",       category |-> "flexibility", met |-> 30],
       [name |-> "strength",   category |-> "strength",    met |-> 60],
       [name |-> "weight",     category |-> "strength",    met |-> 60],
       [name |-> "cardio",     category |-> "cardio",      met |-> 60],
       [name |-> "elliptical", category |-> "cardio",      met |-> 65] >>

GeneralActivity == [name |-> "general activity", category |-> "cardio", met |-> 40]

\* re.search(r'(\d+)\s*(min|minute|minutes|hour|hours)', s) matches at i
DurationMatchAt(s, i) ==
    \E n \in {DigitRun(s, i)} :
        /\ n > 0
        /\ \E w \in {"min", "hour"} : StartsWithAt(s, i + n + SpaceRun(s, i + n), w)

\* total_duration, in minutes
\* int(group(1)), times 60 when group(2) is an hour, of the match at i
duration_at(s, i, n) ==
    IF StartsWithAt(s, i + n + SpaceRun(s, i + n), "min")
    THEN IntVal(SubSeq(s, i, i + n - 1))
    ELSE IntVal(SubSeq(s, i, i + n - 1)) * 60

duration_from(s, i) == IF i = 0 THEN 30 ELSE duration_at(s, i, DigitRun(s, i))

fallback_duration(text_lower) ==
    duration_from(text_lower,
                  FirstIndex([j \in 1..Len(text_lower) |-> DurationMatchAt(text_lower, j)]))

exercise_at(i) == IF i = 0 THEN GeneralActivity ELSE exercise_types[i]

detected_exercise(text_lower) ==
    exercise_at(FirstIndex([j \in 1..Len(exercise_types) |->
                               Contains(exercise_types[j].name, text_lower)]))

ExReturned(exercises, total_duration_min, total_kcal, confidence, low_confidence, branch) ==
    [status |-> "ok", exercises |-> exercises, total_duration_min |-> total_duration_min,
     total_kcal |-> total_kcal, confidence |-> confidence, qtag |-> "list",
     questions |-> <<>>, low_confidence |-> low_confidence, branch |-> branch]

\* ExerciseEstimator._fallback_parse; weight_kg in tenths of a kilogram
\* est_kcal = int(met * weight_kg * total_duration / 60) and the ExerciseParse
exercise_estimate(exercise_info, total_duration, kcal) ==
    ExReturned(<< [name |-> exercise_info.name, category |-> exercise_info.category,
                   duration_min |-> total_duration, est_kcal |-> Num(10 * kcal)] >>,
               Num(10 * total_duration), Num(10 * kcal), 50, TRUE, "fallback")

exercise_fallback_parse(text, weight_kg) ==
    exercise_estimate(detected_exercise(Lower(text)), fallback_duration(Lower(text)),
                      TruncDiv(detected_exercise(Lower(text)).met * weight_kg
                                   * fallback_duration(Lower(text)), 6000))

\* the exercises of the model's answer, as they are handed back (unconverted)
raw_exercises(body) ==
    IF body.items_tag # "list" THEN <<>>
    ELSE [i \in 1..Len(body.items) |->
             [name |-> body.items[i].name, category |-> "cardio",
              duration_min |-> 0, est_kcal |-> body.items[i].kcal]]

parse_exercise_text(text, weight_kg, up, body) ==
    LET st == claude_call(up)
    IN  IF st # "ok" \/ body.kind # "object" THEN exercise_fallback_parse(text, weight_kg)
        ELSE IF conv_error(body.confidence) # "none"
        THEN exercise_fallback_parse(text, weight_kg)
        ELSE ExReturned(raw_exercises(body), body.total_duration_min, body.total_kcal,
                        conv_value(body.confidence, 70),
                        conv_value(body.confidence, 70) < 60, "model")

(***************************************************************************)
(* app/validation.py : sanitize_text, sanitize_coach_message               *)
(***************************************************************************)
MAX_TEXT_LENGTH == 2000

RECURSIVE LStrip(_)
LStrip(s) == IF Len(s) > 0 /\ IsSpace(CharAt(s, 1)) THEN LStrip(SubSeq(s, 2, Len(s))) ELSE s

RECURSIVE RStrip(_)
RStrip(s) ==
    IF Len(s) > 0 /\ IsSpace(CharAt(s, Len(s))) THEN RStrip(SubSeq(s, 1, Len(s) - 1)) ELSE s

\* str.strip()
Strip(s) == RStrip(LStrip(s))

EscapeChar(c) ==
    CASE c = "&" -> "&amp;"
      [] c = "<" -> "&lt;"
      [] c = ">" -> "&gt;"
      [] c = "\"" -> "&quot;"
      [] c = "'" -> "&#x27;"
      [] OTHER -> c

\* html.escape(s)
RECURSIVE HtmlEscape(_)
HtmlEscape(s) ==
    IF Len(s) = 0 THEN ""
    ELSE EscapeChar(CharAt(s, 1)) \o HtmlEscape(SubSeq(s, 2, Len(s)))

\* sanitize_text: the cleaned text, or a ValidationError
sanitize_text(text) ==
    LET clean_text == HtmlEscape(Strip(text))
    IN  [raised |-> Len(clean_text) > MAX_TEXT_LENGTH, text |-> clean_text]

\* the literal parts of a pattern match at position i of s, each part after the
\* first preceded by at least gap whitespace characters
RECURSIVE PartsMatchAt(_, _, _, _)
PartsMatchAt(parts, gap, s, i) ==
    IF Len(parts) = 0 THEN TRUE
    ELSE /\ StartsWithAt(s, i, parts[1])
         /\ \/ Len(parts) = 1
            \/ LET j == i + Len(parts[1])
                   n == SpaceRun(s, j)
               IN  n >= gap /\ PartsMatchAt(Tail(parts), gap, s, j + n)

\* suspicious_patterns, as <<literal parts, least whitespace between them>>
suspicious_patterns ==
    { <<<<"ignore", "previous", "instructions">>, 1>>,
      <<<<"system", ":">>, 0>>,
      <<<<"assistant", ":">>, 0>>,
      <<<<"user", ":">>, 0>>,
      <<<<"<", "script">>, 0>>,
      <<<<"javascript", ":">>, 0>>,
      <<<<"data", ":">>, 0>> }

\* re.search(pattern, message, re.IGNORECASE) for some suspicious pattern
is_suspicious(message) ==
    \E pat \in suspicious_patterns :
        \E i \in 1..Len(message) : PartsMatchAt(pat[1], pat[2], Lower(message), i)

sanitize_coach_message(message) ==
    LET clean == sanitize_text(message)
    IN  IF clean.raised THEN clean
        ELSE IF Len(Strip(clean.text)) = 0 THEN [raised |-> TRUE, text |-> clean.text]
        ELSE IF is_suspicious(clean.text) THEN [raised |-> TRUE, text |-> clean.text]
        ELSE clean

(***************************************************************************)
(* app/main.py : execute_coach_tool                                        *)
(***************************************************************************)
\* a content block of the model's response.  num is the JSON value under
\* weight_kg / duration_minutes, in hundredths; desc is meal_description /
\* activity_type; time_mentioned is time_mentioned / measurement_time, ""
\* when the key is absent
Block(type, name, desc, num, intensity, time_mentioned) ==
    [type |-> type, name |-> name, desc |-> desc, num |-> num, intensity |-> intensity,
     time_mentioned |-> time_mentioned]

\* A datetime is a number of seconds.  base_time.replace(hour=.., minute=..,
\* second=0, microsecond=0)
replace_time(base_time, hour, minute) ==
    (base_time \div 86400) * 86400 + hour * 3600 + minute * 60

\* the branch of parse_relative_time taken once 'yesterday' was found
yesterday_time(time_lower, yesterday) ==
    IF Contains("morning", time_lower) THEN replace_time(yesterday, 8, 0)
    ELSE IF Contains("lunch", time_lower) THEN replace_time(yesterday, 12, 30)
    ELSE IF ContainsAny({"dinner", "evening"}, time_lower) THEN replace_time(yesterday, 19, 0)
    ELSE replace_time(yesterday, 12, 0)

relative_time(time_lower, base_time) ==
    IF ContainsAny({"this morning", "morning", "breakfast"}, time_lower)
    THEN replace_time(base_time, 8, 0)
    ELSE IF ContainsAny({"lunch", "noon", "midday"}, time_lower)
    THEN replace_time(base_time, 12, 30)
    ELSE IF ContainsAny({"dinner", "evening", "tonight"}, time_lower)
    THEN replace_time(base_time, 19, 0)
    ELSE IF Contains("yesterday", time_lower)
    THEN yesterday_time(time_lower, base_time - 86400)
    ELSE IF ContainsAny({"earlier", "before", "ago"}, time_lower)
    THEN base_time - 7200
    ELSE base_time

parse_relative_time(time_mentioned, base_time) ==
    IF time_mentioned = "" THEN base_time - 10
    ELSE relative_time(Lower(time_mentioned), base_time)

\* datetime.isoformat(): date, hour, minute and second of the datetime
isoformat(t) ==
    [date |-> t \div 86400, hour |-> (t % 86400) \div 3600,
     minute |-> (t % 3600) \div 60, second |-> t % 60]

NoEffect == [records |-> <<>>, actions |-> <<>>]

Logged(table, type, id, user_id, ts, value) ==
    [records |-> << [table |-> table, id |-> id, user_id |-> user_id, ts |-> ts,
                     value |-> value] >>,
     actions |-> << [type |-> type, id |-> id, value |-> value] >>]

\* isinstance(x, (int, float)) for the JSON value x
is_number(tok) == tok.t = "num"

\* the three tools.  parsed is what text_nutrition.parse hands back for the
\* meal description, insert_ok whether the insert statement succeeds; the
\* result is the rows inserted and the LoggedAction returned (none: the call
\* raised inside the tool and None is returned)
log_meal_tool(block, user_id, id, base_time, parsed, insert_ok) ==
    LET meal_desc == Strip(block.desc)
    IN  IF Len(meal_desc) = 0 \/ Len(meal_desc) > 500 THEN NoEffect
        ELSE IF parsed.status = "raise" THEN NoEffect
        ELSE IF Len(parsed.items) = 0 THEN NoEffect
        ELSE IF ~insert_ok THEN NoEffect
        ELSE Logged("meals", "meal", id, user_id,
                    isoformat(parse_relative_time(block.time_mentioned, base_time)),
                    parsed.totals.kcal)

\* intensity after .lower() and the default for values outside the list
checked_intensity(intensity) ==
    IF Lower(intensity) \in {"low", "moderate", "high"} THEN Lower(intensity) ELSE "moderate"

calorie_rates(intensity) ==
    CASE intensity = "low" -> 5 [] intensity = "high" -> 12 [] OTHER -> 8

log_exercise_tool(block, user_id, id, base_time, insert_ok) ==
    LET activity == Strip(block.desc)
        duration == block.num
    IN  IF Len(activity) = 0 \/ Len(activity) > 100 THEN NoEffect
        ELSE IF ~is_number(duration) \/ duration.v <= 0 THEN NoEffect
        ELSE IF duration.v > 144000 THEN NoEffect
        ELSE IF ~insert_ok THEN NoEffect
        ELSE Logged("exercises", "exercise", id, user_id,
                    isoformat(parse_relative_time(block.time_mentioned, base_time)),
                    TruncDiv(duration.v * calorie_rates(checked_intensity(block.intensity)),
                             100))

\* the mutated tool: the range of the weight is not tested
log_weight_tool_unranged(block, user_id, id, base_time, insert_ok) ==
    LET weight_kg == block.num
    IN  IF ~is_number(weight_kg) \/ weight_kg.v <= 0 THEN NoEffect
        ELSE IF ~insert_ok THEN NoEffect
        ELSE Logged("weights", "weight", id, user_id,
                    isoformat(parse_relative_time(block.time_mentioned, base_time)),
                    RoundHalfEven(weight_kg.v, 10))

\* round(float(weight_kg), 1), in tenths
log_weight_tool(block, user_id, id, base_time, insert_ok) ==
    LET weight_kg == block.num
    IN  IF ~is_number(weight_kg) \/ weight_kg.v <= 0 THEN NoEffect
        ELSE IF weight_kg.v < 2000 \/ weight_kg.v > 30000 THEN NoEffect
        ELSE IF ~insert_ok THEN NoEffect
        ELSE Logged("weights", "weight", id, user_id,
                    isoformat(parse_relative_time(block.time_mentioned, base_time)),
                    RoundHalfEven(weight_kg.v, 10))

execute_coach_tool(block, user_id, id, base_time, parsed, insert_ok) ==
    IF block.name = "log_meal"
    THEN log_meal_tool(block, user_id, id, base_time, parsed, insert_ok)
    ELSE IF block.name = "log_exercise"
    THEN log_exercise_tool(block, user_id, id, base_time, insert_ok)
    ELSE IF block.name = "log_weight"
    THEN log_weight_tool(block, user_id, id, base_time, insert_ok)
    ELSE NoEffect

\* the mutated base time: the clock is read again for each tool call
tool_base_time_now(request_time, now) == now

\* the base time agentic_coach_chat hands to execute_coach_tool, read at now
\* from a clock
tool_base_time(request_time, now) == request_time

(***************************************************************************)
(* app/main.py : the responses of coach_ask and agentic_coach_chat         *)
(***************************************************************************)
\* the mutated test: the handler goes on when the guard said allow = false
guard_blocks_none(guard_result) == guard_result.allow = "null"

\* `if not guard_result["allow"]`
guard_blocks(guard_result) == ~Truthy(guard_result.allow)

\* disclaimers: List[str] accepts the value the guard handed over
disclaimers_valid(guard_result) == guard_result.dtag = "list"

Response(status, actions_taken, disclaimers) ==
    [status |-> status, actions_taken |-> actions_taken, disclaimers |-> disclaimers]

\* HTTPException(500) / an exception leaving the handler
Http500 == Response("error500", <<>>, <<>>)

\* the handler's own except branch of agentic_coach_chat
TroubleResp ==
    Response("trouble", <<>>,
             <<"This coach provides general wellness guidance only. Consult healthcare providers for medical advice.">>)

\* the refusal of coach_ask / agentic_coach_chat
RefusalResp(guard_result) ==
    IF disclaimers_valid(guard_result)
    THEN Response("refused", <<>>, guard_result.disclaimers)
    ELSE Http500


(***************************************************************************)
(* State                                                                   *)
(***************************************************************************)
VARIABLES
    parse_req,      \* the arguments of one parser call and what its model call meets
    parse_ret,      \* what the parser handed back ("pending" before the call)
    guard_req,      \* the message of one SafetyGuard.check call and what its model call meets
    guard_ret,      \* the decision SafetyGuard.check handed back
    coach_req,      \* the request of one coach_ask / agentic_coach_chat call
    coach_pc,       \* where the handler stands: "guard", "model", "blocks", "done"
    guard_result,   \* the handler's guard_result
    content,        \* response.content still to be walked by the handler's loop
    actions_taken,  \* the handler's actions_taken
    records,        \* the rows inserted into meals / exercises / weights
    coach_calls,    \* coaching model calls issued by the handler
    tool_execs,     \* execute_coach_tool invocations
    response,       \* what the handler answered ("none" while it runs)
    now,            \* what datetime.now() yields, in seconds
    request_time,   \* the handler's request_time
    invocations,    \* the tool_use blocks handed to execute_coach_tool, each with the
                    \* position in records of the row it inserted (0: none)
    job,            \* the text of one call_claude_text request
    worker_pc,      \* where call_claude_text stands
    model_calls,    \* the model calls issued, as <<model, "start" | "done">> events
    cheap_result,   \* what the haiku call answered
    capable_result, \* what the sonnet call answered
    tool_runs,      \* the rows call_claude_text wrote to tool_runs
    worker_ret,     \* what call_claude_text handed back
    client,         \* whisper.py's global client: TRUE once an OpenAI client exists
    audio_req,      \* one audio request and what its calls meet
    audio_ret,      \* what the audio endpoint answered
    audio_count,    \* audio requests received
    current_time,   \* what time.time() yields, in seconds
    requests,       \* RateLimiter.requests: identifier -> deque of timestamps
    last_cleanup,   \* RateLimiter.last_cleanup
    limit_ret,      \* what the last check_rate_limit call answered
    allowed,        \* the requests allowed during the last window_seconds
    tables,         \* the rows of meals / exercises / weights, by id
    history_req,    \* one update or delete request on a history entry
    history_ret,    \* what the history endpoint answered
    call_req,       \* the arguments of one call of a function of main.py / validation.py
    call_ret,       \* what the function returned
    event_bus,      \* the rows of event_bus, by id: type, payload and processed_at
    job_meals,      \* for each event, the meals the worker stored for it
    loop_pc,        \* where run_worker stands: "poll", "job", "sleep"
    fetched,        \* the id of the row the last poll returned (0: none)
    last_attempt,   \* what the last process_job call went through
    meals,          \* the rows of the meals table: owner, items and totals
    meal_ret        \* what the last writer of the meals table answered

parse_vars == <<parse_req, parse_ret>>
guard_vars == <<guard_req, guard_ret>>
coach_vars == <<coach_req, coach_pc, guard_result, content, actions_taken, records,
                coach_calls, tool_execs, response, now, request_time, invocations>>
worker_vars == <<job, worker_pc, model_calls, cheap_result, capable_result, tool_runs,
                 worker_ret>>
audio_vars == <<client, audio_req, audio_ret, audio_count>>
limiter_vars == <<current_time, requests, last_cleanup, limit_ret, allowed>>
history_vars == <<tables, history_req, history_ret>>
calc_vars == <<call_req, call_ret>>
jobs_vars == <<event_bus, job_meals, loop_pc, fetched, last_attempt>>
meals_vars == <<meals, meal_ret>>
extra_vars == <<calc_vars, jobs_vars, meals_vars>>
service_vars == <<audio_vars, limiter_vars, history_vars, extra_vars>>
core_vars == <<parse_vars, guard_vars, coach_vars, worker_vars>>
vars == <<core_vars, service_vars>>

(***************************************************************************)
(* Inputs of the parsers                                                   *)
(***************************************************************************)
MealFrags == {"5 slices ", "pizza", "small egg", "xyz"}
MealTexts == Concats(MealFrags, MaxSegs) \ {""}

ExerciseFrags == {"running ", "45 min ", "yoga", "2 hours"}
ExerciseTexts == Concats(ExerciseFrags, MaxSegs) \ {""}

ImageUrls == {"data:image/png;base64,iVBORw0KGgo=", "https://example.com/meal.jpg"}

ItemData(kind, name, qty, kcal, protein_g, carbs_g, fat_g) ==
    [kind |-> kind, name |-> name, qty |-> qty, kcal |-> kcal,
     protein_g |-> protein_g, carbs_g |-> carbs_g, fat_g |-> fat_g]

PizzaData == ItemData("dict", "pizza", Num(10), Num(2700), Num(110), Num(330), Num(100))
BananaData == ItemData("dict", "banana", JMissing, Num(1055), Num(13), JMissing, Num(4))
RefundData == ItemData("dict", "refund", Num(10), Num(-500), Num(-20), Num(0), Num(0))
SoupData == ItemData("dict", "soup", Num(10), JNull, Num(50), Num(80), Num(20))
StewData == ItemData("dict", "stew", Num(10), Num(3000), JStr, Num(80), Num(20))
BareString == ItemData("nondict", "", JMissing, JMissing, JMissing, JMissing, JMissing)

\* elements the model may put in "items" / "exercises": well-formed ones (one
\* with absent keys and a fractional kcal), one with negative values, one with
\* a null, one with a non-numeric string, and one that is not an object
ModelItems == {PizzaData, BananaData, RefundData, SoupData, StewData, BareString}

RECURSIVE SeqsUpTo(_, _)
\* the sequences over S of length at most n
SeqsUpTo(S, n) ==
    IF n = 0 THEN {<<>>}
    ELSE LET shorter == SeqsUpTo(S, n - 1)
         IN  shorter \cup {Append(q, x) : q \in shorter, x \in S}

\* the JSON values under "confidence", in hundredths
Confidences ==
    {JMissing, JNull, JStr, Num(-10), Num(0), Num(59), Num(60), Num(75), Num(80), Num(150)}

Body(kind, items_tag, items, confidence, is_food, total_kcal, total_duration_min) ==
    [kind |-> kind, items_tag |-> items_tag, items |-> items, confidence |-> confidence,
     is_food |-> is_food, total_kcal |-> total_kcal,
     total_duration_min |-> total_duration_min]

NotJson == Body("notjson", "missing", <<>>, JMissing, "missing", JMissing, JMissing)
NonObject == Body("nonobject", "missing", <<>>, JMissing, "missing", JMissing, JMissing)

\* answers that are JSON objects, with the given values under "is_food"
ObjectBodies(is_foods) ==
    {Body("object", "list", items, c, f, Num(2700), Num(300)) :
        items \in SeqsUpTo(ModelItems, MaxItems), c \in Confidences, f \in is_foods}
    \cup
    {Body("object", tag, <<>>, c, "missing", JMissing, JMissing) :
        tag \in {"missing", "null"}, c \in {Num(40), Num(80)}}

\* one answer of each class, used where the text of the request varies
SampleBodies ==
    {NotJson, NonObject,
     Body("object", "list", <<SoupData>>, Num(80), "missing", Num(2700), Num(300)),
     Body("object", "list", <<StewData>>, Num(80), "missing", Num(2700), Num(300)),
     Body("object", "list", <<PizzaData>>, JStr, "missing", Num(2700), Num(300)),
     Body("object", "list", <<PizzaData>>, Num(40), "missing", Num(2700), Num(300))}

Answering == {up \in Upstreams : claude_call(up) = "ok"}
AnsweringUp == [client |-> TRUE, api |-> "ok", log |-> "ok"]

\* what a call meets: every way the call fails, every answering environment
\* with one answer of each class, and one answering environment with every
\* answer
Encounters(is_foods) ==
    {<<up, NotJson>> : up \in Upstreams \ Answering}
    \cup {<<up, b>> : up \in Answering, b \in SampleBodies}
    \cup {<<AnsweringUp, b>> : b \in ObjectBodies(is_foods)}

SampleEncounters ==
    {<<up, NotJson>> : up \in Upstreams \ Answering}
    \cup {<<up, b>> : up \in Answering, b \in SampleBodies}

\* MealParse values a caller of fix_parse may hold: a parser's result, the
\* temporary parse fix_item builds, and client-supplied FixMealParseReq bodies
\* (low_confidence defaults to False in the schema, whatever the confidence)
PizzaItem ==
    [name |-> "pizza", qty |-> 1000, unit |-> "g", kcal |-> 270,
     protein_g |-> 110, carbs_g |-> 330, fat_g |-> 100]

Original(confidence, qtag, questions, low_confidence) ==
    [items |-> <<PizzaItem>>, totals |-> sum_totals(<<PizzaItem>>),
     confidence |-> confidence, qtag |-> qtag, questions |-> questions,
     low_confidence |-> low_confidence]

OriginalParses ==
    {Original(40, "list", <<"Is this the correct food: pizza?", "Any sides, sauces, or additional items?">>, TRUE),
     Original(80, "none", <<>>, FALSE),
     Original(30, "none", <<>>, FALSE),
     Original(90, "none", <<>>, TRUE)}

WeightsKg == {700, 825}

Req(op, text, image_url, e, strict_int, original_parse, weight_kg) ==
    [op |-> op, text |-> text, image_url |-> image_url, up |-> e[1], body |-> e[2],
     strict_int |-> strict_int, original_parse |-> original_parse,
     weight_kg |-> weight_kg]

\* the environments in which the model answers the call, whatever becomes of
\* the log_tool_run that follows
ModelAnswered == {up \in Upstreams : up.client /\ up.api = "ok"}

\* a well-formed answer
PizzaBody == Body("object", "list", <<PizzaData>>, Num(80), "missing", Num(2700), Num(300))

NoOriginal == Original(80, "none", <<>>, FALSE)

TextReqs ==
    {Req("text", t, "", e, si, NoOriginal, 700) :
        t \in MealTexts, e \in SampleEncounters, si \in BOOLEAN}
    \cup
    {Req("text", "5 slices pizza", "", e, FALSE, NoOriginal, 700) :
        e \in Encounters({"missing"})}
    \cup
    {Req("text", "5 slices pizza", "", <<up, PizzaBody>>, FALSE, NoOriginal, 700) :
        up \in ModelAnswered}

VisionReqs ==
    {Req("vision", "", u, e, FALSE, NoOriginal, 700) :
        u \in ImageUrls, e \in Encounters({"true", "false", "missing"})}

FixReqs ==
    {Req("fix", "", "", e, FALSE, o, 700) :
        e \in Encounters({"missing"}), o \in OriginalParses}

ExerciseReqs ==
    {Req("exercise", t, "", e, FALSE, NoOriginal, w) :
        t \in ExerciseTexts, e \in SampleEncounters, w \in WeightsKg}
    \cup
    {Req("exercise", "running 45 min ", "", e, FALSE, NoOriginal, 700) :
        e \in Encounters({"missing"})}

\* texts handed to _fallback_parse itself: quantity words, size words, food
\* names and words of neither kind
FallbackFrags == {"5 slices ", "two ", "large ", "small ", "pizza ", "egg ", "half ", "xyz "}
FallbackTexts == Concats(FallbackFrags, MaxSegs) \ {""}

FallbackReqs ==
    {Req("fallback", t, "", <<AnsweringUp, NotJson>>, si, NoOriginal, 700) :
        t \in FallbackTexts, si \in BOOLEAN}

Pending == [status |-> "pending"]

\* the parts of the state an operation of another component leaves alone
NoGuard == [allow |-> "none", dtag |-> "none", disclaimers |-> <<>>, path |-> "none"]

NoResponse == [status |-> "none", actions_taken |-> <<>>, disclaimers |-> <<>>]

NoResult == [kind |-> "none", confidence |-> JMissing, items |-> "none"]

ParseIdle == parse_req = Pending /\ parse_ret = Pending

GuardIdle == guard_req = Pending /\ guard_ret = NoGuard

CoachIdle ==
    /\ coach_req = Pending
    /\ coach_pc = "done"
    /\ guard_result = NoGuard
    /\ content = <<>>
    /\ actions_taken = <<>>
    /\ records = <<>>
    /\ coach_calls = 0
    /\ tool_execs = 0
    /\ response = NoResponse
    /\ now = 0
    /\ request_time = 0
    /\ invocations = <<>>

WorkerIdle ==
    /\ job = Pending
    /\ worker_pc = "done"
    /\ model_calls = <<>>
    /\ cheap_result = NoResult
    /\ capable_result = NoResult
    /\ tool_runs = <<>>
    /\ worker_ret = Pending

AudioIdle ==
    /\ client = FALSE
    /\ audio_req = Pending
    /\ audio_ret = Pending
    /\ audio_count = 0

LimiterIdle ==
    /\ current_time = 0
    /\ requests = <<>>
    /\ last_cleanup = 0
    /\ limit_ret = Pending
    /\ allowed = <<>>

HistoryIdle ==
    /\ tables = <<>>
    /\ history_req = Pending
    /\ history_ret = Pending

CalcIdle == call_req = Pending /\ call_ret = Pending

JobsIdle ==
    /\ event_bus = <<>>
    /\ job_meals = <<>>
    /\ loop_pc = "idle"
    /\ fetched = 0
    /\ last_attempt = Pending

MealsIdle == meals = <<>> /\ meal_ret = Pending

ExtraIdle == CalcIdle /\ JobsIdle /\ MealsIdle

ServiceIdle == AudioIdle /\ LimiterIdle /\ HistoryIdle /\ ExtraIdle

CoreIdle == ParseIdle /\ GuardIdle /\ CoachIdle /\ WorkerIdle

(***************************************************************************)
(* The parsers as operations                                               *)
(***************************************************************************)
ParseInit ==
    /\ parse_req \in TextReqs \cup VisionReqs \cup FixReqs \cup ExerciseReqs
                     \cup FallbackReqs
    /\ parse_ret = Pending
    /\ GuardIdle /\ CoachIdle /\ WorkerIdle /\ ServiceIdle

TextParse ==
    /\ parse_ret.status = "pending"
    /\ parse_req.op = "text"
    /\ parse_ret' = text_parse(parse_req.text, parse_req.up, parse_req.body,
                               parse_req.strict_int)
    /\ UNCHANGED <<parse_req, guard_vars, coach_vars, worker_vars, service_vars>>

VisionParse ==
    /\ parse_ret.status = "pending"
    /\ parse_req.op = "vision"
    /\ parse_ret' = vision_parse(parse_req.image_url, parse_req.up, parse_req.body)
    /\ UNCHANGED <<parse_req, guard_vars, coach_vars, worker_vars, service_vars>>

FixParse ==
    /\ parse_ret.status = "pending"
    /\ parse_req.op = "fix"
    /\ parse_ret' = fix_parse(parse_req.original_parse, parse_req.up, parse_req.body)
    /\ UNCHANGED <<parse_req, guard_vars, coach_vars, worker_vars, service_vars>>

ExerciseParse ==
    /\ parse_ret.status = "pending"
    /\ parse_req.op = "exercise"
    /\ parse_ret' = parse_exercise_text(parse_req.text, parse_req.weight_kg,
                                        parse_req.up, parse_req.body)
    /\ UNCHANGED <<parse_req, guard_vars, coach_vars, worker_vars, service_vars>>

\* a call of TextNutrition._fallback_parse: the list of items, or the
\* exception of the MealItem constructor
FallbackParse ==
    /\ parse_ret.status = "pending"
    /\ parse_req.op = "fallback"
    /\ parse_ret' = IF _fallback_parse_raises(parse_req.text, parse_req.strict_int)
                    THEN Raised("fallback")
                    ELSE [status |-> "ok", items |-> _fallback_parse(parse_req.text),
                          branch |-> "fallback"]
    /\ UNCHANGED <<parse_req, guard_vars, coach_vars, worker_vars, service_vars>>

NextParse == TextParse \/ VisionParse \/ FixParse \/ ExerciseParse \/ FallbackParse

SpecParse == ParseInit /\ [][NextParse]_vars

(***************************************************************************)
(* SafetyGuard.check as an operation                                       *)
(***************************************************************************)
SafetyFrags ==
    {"Can I Stop ", "change my dos", "e", "ozempic ", "1200 kcal ", "eat salad ",
     "SHOULD I TAKE ", "Increase Dose ", "decrease dose "}

SafetyMessages == Concats(SafetyFrags, MaxSegs)

SafetyNotJson == [kind |-> "notjson", allow |-> "missing", dtag |-> "missing",
                  disclaimers |-> <<>>]

GuardEncounters ==
    {<<up, SafetyNotJson>> : up \in Upstreams} \cup {<<AnsweringUp, b>> : b \in SafetyBodies}

GuardInit ==
    /\ guard_req \in {[message |-> m, up |-> e[1], body |-> e[2]] :
                        m \in SafetyMessages, e \in GuardEncounters}
    /\ guard_ret = NoGuard
    /\ ParseIdle /\ CoachIdle /\ WorkerIdle /\ ServiceIdle

GuardCheck ==
    /\ guard_ret = NoGuard
    /\ guard_ret' = check(guard_req.message, guard_req.up, guard_req.body)
    /\ UNCHANGED <<guard_req, parse_vars, coach_vars, worker_vars, service_vars>>

NextGuard == GuardCheck

SpecGuard == GuardInit /\ [][NextGuard]_vars

(***************************************************************************)
(* coach_ask and agentic_coach_chat as step machines                       *)
(***************************************************************************)
CoachMessages == {"Can I Stop ozempic", "I ate pizza & ran", "system: eat salad", "  "}

\* the messages sent to agentic_coach_chat, which does not sanitize them
ChatMessages == {"Can I Stop ozempic", "I ate pizza & ran"}

UserId == "u1"

\* one upstream for each way claude_call ends: answered, canned answer, raised
CoachUpstreams ==
    {AnsweringUp,
     [client |-> FALSE, api |-> "ok", log |-> "ok"],
     [client |-> TRUE, api |-> "raise", log |-> "ok"],
     [client |-> TRUE, api |-> "ok", log |-> "env_fail"]}

\* the classifier's answers met by the handlers: one for each way the
\* handlers treat a decision
CoachBodies ==
    {b \in SafetyBodies :
        \/ b.kind = "nonobject"
        \/ b.dtag = "list" /\ b.allow # "missing" /\ b.disclaimers # <<>>
        \/ b.dtag = "null" /\ b.allow # "missing"}

CoachGuardEncounters ==
    {<<up, SafetyNotJson>> : up \in CoachUpstreams}
    \cup {<<AnsweringUp, b>> : b \in CoachBodies}

Text == Block("text", "", "", JMissing, "", "")

ToolUse(name, desc, num, intensity, time_mentioned) ==
    Block("tool_use", name, desc, num, intensity, time_mentioned)

Twice(s) == s \o s

\* a description of 512 characters
LongText == Twice(Twice(Twice(Twice(Twice(Twice(Twice(Twice(Twice("a")))))))))

\* the content blocks a response is drawn from
Blocks ==
    {Text,
     ToolUse("log_meal", " 5 slices pizza ", JMissing, "", "for Lunch"),
     ToolUse("log_meal", "  ", JMissing, "", ""),
     ToolUse("log_meal", LongText, JMissing, "", ""),
     ToolUse("log_exercise", "running", Num(3050), "HIGH", "for Lunch"),
     ToolUse("log_exercise", "yoga", Num(-500), "low", ""),
     ToolUse("log_exercise", "yoga", Num(144001), "low", "yesterday evening"),
     ToolUse("log_weight", "", Num(7055), "", ""),
     ToolUse("log_weight", "", Num(50000), "", ""),
     ToolUse("delete_meal", "", JMissing, "", "")}

\* the clock when the request arrives: five seconds before midnight
StartTime == 2 * 86400 - 5

\* how long a model call or a tool call takes, in seconds
Delays == {10}

Contents == SeqsUpTo(Blocks, MaxBlocks)

\* what the meal parser meets when log_meal calls it
ToolEncounters ==
    {<<AnsweringUp, Body("object", "list", <<PizzaData>>, Num(40), "missing", JMissing, JMissing)>>,
     <<AnsweringUp, Body("object", "list", <<>>, Num(90), "missing", JMissing, JMissing)>>,
     <<AnsweringUp, Body("object", "list", <<PizzaData>>, Num(150), "missing", JMissing, JMissing)>>,
     <<AnsweringUp, NotJson>>}

\* the encounters that matter to a tool call: only log_meal calls the parser
MetBy(block) ==
    IF block.name = "log_meal" THEN ToolEncounters
    ELSE {<<AnsweringUp, NotJson>>}

CoachInit ==
    /\ coach_req \in [handler : {"coach_ask"}, message : CoachMessages,
                      context_opt_in : BOOLEAN]
                     \cup [handler : {"agentic_coach_chat"}, message : ChatMessages,
                           context_opt_in : BOOLEAN]
    /\ coach_pc = "guard"
    /\ guard_result = NoGuard
    /\ content = <<>>
    /\ actions_taken = <<>>
    /\ records = <<>>
    /\ coach_calls = 0
    /\ tool_execs = 0
    /\ response = NoResponse
    /\ now = StartTime
    /\ request_time = 0
    /\ invocations = <<>>
    /\ ParseIdle /\ GuardIdle /\ WorkerIdle /\ ServiceIdle

Answer(resp) ==
    /\ response' = resp
    /\ coach_pc' = "done"

\* coach_ask up to the return of the refusal: sanitize_coach_message, then the
\* safety check on the cleaned question
AskGuard ==
    /\ coach_pc = "guard"
    /\ coach_req.handler = "coach_ask"
    /\ \E e \in CoachGuardEncounters :
         LET clean_question == sanitize_coach_message(coach_req.message)
             g == check(clean_question.text, e[1], e[2])
         IN  IF clean_question.raised
             THEN Answer(Http500) /\ UNCHANGED guard_result
             ELSE /\ guard_result' = g
                  /\ IF guard_blocks(g)
                     THEN Answer(RefusalResp(g))
                     ELSE coach_pc' = "model" /\ UNCHANGED response
    /\ UNCHANGED <<coach_req, content, actions_taken, records, coach_calls, tool_execs,
                   now, request_time, invocations, parse_vars, guard_vars, worker_vars, service_vars>>

\* coach_ask from the context queries to its return
AskModel ==
    /\ coach_pc = "model"
    /\ coach_req.handler = "coach_ask"
    /\ \E up \in CoachUpstreams, select_ok \in BOOLEAN :
         IF coach_req.context_opt_in /\ ~select_ok
         THEN Answer(Http500) /\ UNCHANGED coach_calls
         ELSE /\ coach_calls' = coach_calls + 1
              /\ IF claude_call(up) = "raise" \/ ~disclaimers_valid(guard_result)
                 THEN Answer(Http500)
                 ELSE Answer(Response("answered", <<>>, guard_result.disclaimers))
    /\ UNCHANGED <<coach_req, guard_result, content, actions_taken, records, tool_execs,
                   now, request_time, invocations, parse_vars, guard_vars, worker_vars, service_vars>>

\* agentic_coach_chat up to the return of the refusal
ChatGuard ==
    /\ coach_pc = "guard"
    /\ coach_req.handler = "agentic_coach_chat"
    /\ \E e \in CoachGuardEncounters :
         LET g == check(coach_req.message, e[1], e[2])
         IN  /\ guard_result' = g
             /\ IF guard_blocks(g)
                THEN Answer(RefusalResp(g))
                ELSE coach_pc' = "model" /\ UNCHANGED response
    /\ UNCHANGED <<coach_req, content, actions_taken, records, coach_calls, tool_execs,
                   now, request_time, invocations, parse_vars, guard_vars, worker_vars, service_vars>>

\* agentic_coach_chat from the context queries to the start of the loop over
\* response.content.  The canned answer of a missing client has a block
\* without a type, so the loop's first test raises
ChatModel ==
    /\ coach_pc = "model"
    /\ coach_req.handler = "agentic_coach_chat"
    /\ \E up \in CoachUpstreams, select_ok \in BOOLEAN, c \in Contents, took \in Delays :
         IF coach_req.context_opt_in /\ ~select_ok
         THEN Answer(Http500) /\ UNCHANGED <<coach_calls, content, now, request_time>>
         ELSE /\ request_time' = now
              /\ now' = now + took
              /\ coach_calls' = coach_calls + 1
              /\ IF claude_call(up) = "ok"
                 THEN content' = c /\ coach_pc' = "blocks" /\ UNCHANGED response
                 ELSE Answer(TroubleResp) /\ UNCHANGED content
    /\ UNCHANGED <<coach_req, guard_result, actions_taken, records, tool_execs, invocations,
                   parse_vars, guard_vars, worker_vars, service_vars>>

\* one turn of the loop over response.content
ChatBlock ==
    /\ coach_pc = "blocks"
    /\ content /= <<>>
    /\ LET content_block == Head(content)
       IN  IF content_block.type = "tool_use"
           THEN \E e \in MetBy(content_block), insert_ok \in BOOLEAN, took \in Delays :
                  \E tool_result \in
                         {execute_coach_tool(
                              content_block, UserId, Len(records) + 1,
                              tool_base_time(request_time, now),
                              text_parse(Strip(content_block.desc), e[1], e[2], FALSE),
                              insert_ok)} :
                      /\ tool_execs' = tool_execs + 1
                      /\ records' = records \o tool_result.records
                      /\ actions_taken' = actions_taken \o tool_result.actions
                      /\ invocations' =
                             Append(invocations,
                                    [block |-> content_block,
                                     row |-> IF tool_result.records = <<>> THEN 0
                                             ELSE Len(records) + 1])
                      /\ now' = now + took
           ELSE UNCHANGED <<tool_execs, records, actions_taken, invocations, now>>
    /\ content' = Tail(content)
    /\ UNCHANGED <<coach_req, coach_pc, guard_result, coach_calls, response, request_time,
                   parse_vars, guard_vars, worker_vars, service_vars>>

\* the return after the loop; a response the schema rejects lands in the
\* handler's except branch
ChatReturn ==
    /\ coach_pc = "blocks"
    /\ content = <<>>
    /\ IF disclaimers_valid(guard_result)
       THEN Answer(Response("answered", actions_taken, guard_result.disclaimers))
       ELSE Answer(TroubleResp)
    /\ UNCHANGED <<coach_req, guard_result, content, actions_taken, records, coach_calls,
                   tool_execs, now, request_time, invocations,
                   parse_vars, guard_vars, worker_vars, service_vars>>

NextCoach == AskGuard \/ AskModel \/ ChatGuard \/ ChatModel \/ ChatBlock \/ ChatReturn

SpecCoach == CoachInit /\ [][NextCoach]_vars

(***************************************************************************)
(* worker/main.py : call_claude_text                                       *)
(***************************************************************************)
\* what json.loads(msg.content[0].text) yields: confidence is the JSON value
\* under "confidence" (hundredths), items stands for the rest of the answer
WorkerBodies ==
    [kind : {"notjson", "nonobject"}, confidence : {JMissing}, items : {"a"}]
    \cup
    [kind : {"object"},
     confidence : {JMissing, JNull, Num(0), Num(40), Num(59), Num(60), Num(90)},
     items : {"a", "b"}]

model_of(use_haiku) == IF use_haiku THEN "haiku" ELSE "sonnet"

\* result.get("confidence", 1.0) < 0.6 can be evaluated
comparable(result) == result.confidence.t \in {"num", "missing"}

\* the mutated escalation test: use_haiku is not consulted
escalates_again(use_haiku, result) == conv_value(result.confidence, 100) < 60

\* `use_haiku and result.get("confidence", 1.0) < 0.6`, for a result on
\* which the test can be evaluated
escalates(use_haiku, result) == use_haiku /\ conv_value(result.confidence, 100) < 60

\* how one activation of call_claude_text ends once its model call is over:
\* "raise", "escalate" (the recursive call) or "return"
call_end(use_haiku, api, result, insert_ok) ==
    IF api = "raise" \/ result.kind = "notjson" THEN "raise"
    ELSE IF use_haiku /\ (result.kind = "nonobject" \/ ~comparable(result)) THEN "raise"
    ELSE IF result.kind = "object" /\ escalates(use_haiku, result) THEN "escalate"
    ELSE IF result.kind = "nonobject" \/ ~insert_ok THEN "raise"
    ELSE "return"

WorkerRet(status, result) == [status |-> status, result |-> result]

WorkerInit ==
    /\ job \in [text : {"5 slices pizza", "xyz"}]
    /\ worker_pc = "start"
    /\ model_calls = <<>>
    /\ cheap_result = NoResult
    /\ capable_result = NoResult
    /\ tool_runs = <<>>
    /\ worker_ret = Pending
    /\ ParseIdle /\ GuardIdle /\ CoachIdle /\ ServiceIdle

\* client.messages.create is entered
CallStart(use_haiku, at, to) ==
    /\ worker_pc = at
    /\ model_calls' = Append(model_calls, <<model_of(use_haiku), "start">>)
    /\ worker_pc' = to
    /\ UNCHANGED <<job, cheap_result, capable_result, tool_runs, worker_ret,
                   parse_vars, guard_vars, coach_vars, service_vars>>

\* client.messages.create is left and the activation runs to its end
CallComplete(use_haiku, at, api, result, insert_ok) ==
    LET end == call_end(use_haiku, api, result, insert_ok)
        answer == IF api = "raise" THEN NoResult ELSE result
    IN  /\ worker_pc = at
        /\ model_calls' = Append(model_calls, <<model_of(use_haiku), "done">>)
        /\ IF use_haiku
           THEN cheap_result' = answer /\ UNCHANGED capable_result
           ELSE capable_result' = answer /\ UNCHANGED cheap_result
        /\ worker_pc' = IF end = "escalate" THEN "escalate" ELSE "done"
        /\ tool_runs' = IF end = "return"
                        THEN Append(tool_runs, [model |-> model_of(use_haiku),
                                                confidence |-> result.confidence])
                        ELSE tool_runs
        /\ worker_ret' = CASE end = "return" -> WorkerRet("ok", result)
                           [] end = "raise" -> WorkerRet("raise", NoResult)
                           [] OTHER -> worker_ret
        /\ UNCHANGED <<job, parse_vars, guard_vars, coach_vars, service_vars>>

CheapStart == CallStart(TRUE, "start", "cheap_call")

CheapComplete ==
    \E api \in {"ok", "raise"}, result \in WorkerBodies, insert_ok \in BOOLEAN :
        CallComplete(TRUE, "cheap_call", api, result, insert_ok)

CapableStart == CallStart(FALSE, "escalate", "capable_call")

CapableComplete ==
    \E api \in {"ok", "raise"}, result \in WorkerBodies, insert_ok \in BOOLEAN :
        CallComplete(FALSE, "capable_call", api, result, insert_ok)

NextWorker == CheapStart \/ CheapComplete \/ CapableStart \/ CapableComplete

SpecWorker == WorkerInit /\ [][NextWorker]_vars

(***************************************************************************)
(* app/whisper.py and the audio endpoints of app/main.py                   *)
(***************************************************************************)
\* an Optional[str]: None, or a string
NoneStr == [t |-> "none", v |-> ""]
Str(v) == [t |-> "str", v |-> v]

\* Python's truth value of an Optional[str]
Nonempty(x) == x.t = "str" /\ x.v # ""

KeyMissingNotice == "[Audio transcription not available - OpenAI API key missing]"
UnableNotice == "Unable to transcribe audio"

\* init_whisper: whether a client exists afterwards
init_whisper(api_key, ctor_ok) == api_key /\ ctor_ok

\* the value of the global client after transcribe_audio
client_after(had_client, api_key, ctor_ok) ==
    had_client \/ init_whisper(api_key, ctor_ok)

\* transcribe_audio: speech tells what decoding, the temporary file and the
\* service call meet ("decode_error", "io_error", "api_error") or the text the
\* service returns
transcribe_audio(had_client, api_key, ctor_ok, speech) ==
    IF ~client_after(had_client, api_key, ctor_ok) THEN Str(KeyMissingNotice)
    ELSE IF speech.kind # "text" THEN NoneStr
    ELSE Str(speech.text)

\* transcribe_meal_audio, given what transcribe_audio returned
transcribe_meal_audio(transcript, hints) ==
    IF ~Nonempty(transcript)
    THEN IF Nonempty(hints) THEN hints.v ELSE UnableNotice
    ELSE IF Nonempty(hints) THEN transcript.v \o ". Additional info: " \o hints.v
    ELSE transcript.v

\* `sanitize_text(req.hints) if req.hints else None`
clean_hints(hints) == IF Nonempty(hints) THEN Str(sanitize_text(hints.v).text) ELSE NoneStr

AudioHttp(code, text) == [status |-> "http", code |-> code, text |-> text]
AudioOk(text) == [status |-> "ok", code |-> 200, text |-> text]

\* parse_meal_audio after the rate limit, with the text handed to
\* text_nutrition.parse; parse_ok and insert_ok tell whether the parser and the
\* event_bus insert return
parse_meal_audio(r, had_client) ==
    IF Nonempty(r.hints) /\ sanitize_text(r.hints.v).raised THEN AudioHttp(422, "")
    ELSE LET text == transcribe_meal_audio(
                        transcribe_audio(had_client, r.api_key, r.ctor_ok, r.speech),
                        clean_hints(r.hints))
         IN  IF text = "" THEN AudioHttp(400, "")
             ELSE IF ~r.parse_ok THEN AudioHttp(500, text)
             ELSE IF ~r.insert_ok THEN AudioHttp(500, text)
             ELSE AudioOk(text)

\* transcribe_audio_simple after the rate limit
transcribe_audio_simple(r, had_client) ==
    IF ~Nonempty(transcribe_audio(had_client, r.api_key, r.ctor_ok, r.speech))
    THEN AudioHttp(400, "")
    ELSE AudioOk(transcribe_audio(had_client, r.api_key, r.ctor_ok, r.speech).v)

Speech(kind, text) == [kind |-> kind, text |-> text]

SpeechOutcomes ==
    {Speech("decode_error", ""), Speech("io_error", ""), Speech("api_error", ""),
     Speech("text", ""), Speech("text", "two eggs")}

HintValues == {NoneStr, Str(""), Str("  "), Str(" with <b>toast ")}

AudioReqs ==
    [op : {"meal", "simple"}, hints : HintValues, api_key : BOOLEAN, ctor_ok : BOOLEAN,
     speech : SpeechOutcomes, parse_ok : BOOLEAN, insert_ok : BOOLEAN]

MaxAudioRequests == 2

\* the process starts with no client
AudioInit == AudioIdle /\ LimiterIdle /\ HistoryIdle /\ CoreIdle /\ ExtraIdle

\* a request arrives at one of the audio endpoints
AudioRequest ==
    /\ audio_count < MaxAudioRequests
    /\ audio_req = Pending \/ audio_ret # Pending
    /\ audio_req' \in AudioReqs
    /\ audio_ret' = Pending
    /\ audio_count' = audio_count + 1
    /\ UNCHANGED <<client, limiter_vars, history_vars, core_vars, extra_vars>>

ParseMealAudio ==
    /\ audio_req # Pending /\ audio_ret = Pending
    /\ audio_req.op = "meal"
    /\ audio_ret' = parse_meal_audio(audio_req, client)
    /\ client' = IF Nonempty(audio_req.hints) /\ sanitize_text(audio_req.hints.v).raised
                 THEN client
                 ELSE client_after(client, audio_req.api_key, audio_req.ctor_ok)
    /\ UNCHANGED <<audio_req, audio_count, limiter_vars, history_vars, core_vars, extra_vars>>

TranscribeAudioSimple ==
    /\ audio_req # Pending /\ audio_ret = Pending
    /\ audio_req.op = "simple"
    /\ audio_ret' = transcribe_audio_simple(audio_req, client)
    /\ client' = client_after(client, audio_req.api_key, audio_req.ctor_ok)
    /\ UNCHANGED <<audio_req, audio_count, limiter_vars, history_vars, core_vars, extra_vars>>

NextAudio == AudioRequest \/ ParseMealAudio \/ TranscribeAudioSimple

SpecAudio == AudioInit /\ [][NextAudio]_vars

(***************************************************************************)
(* app/rate_limiter.py                                                     *)
(***************************************************************************)
cleanup_interval == 300

\* rate limit rules: <<requests_per_window, window_seconds>>
limits ==
    [default |-> <<100, 60>>, auth |-> <<10, 60>>, parse |-> <<30, 60>>,
     coach |-> <<20, 60>>, upload |-> <<5, 60>>]

\* `self.limits.get(limit_type, self.limits['default'])`
limit_rule(limit_type) ==
    IF limit_type \in DOMAIN limits THEN limits[limit_type] ELSE limits["default"]

\* `max(window for _, window in self.limits.values())`
max_window ==
    CHOOSE w \in {limits[t][2] : t \in DOMAIN limits} :
        \A t \in DOMAIN limits : limits[t][2] <= w

\* get_identifier: forwarded_for is the X-Forwarded-For header split at its
\* commas (<<>>: no header), real_ip the X-Real-IP header ("": none)
get_identifier(user_id, client_host, forwarded_for, real_ip) ==
    IF user_id # "" THEN "user:" \o user_id
    ELSE IF real_ip # "" THEN "ip:" \o real_ip
    ELSE IF Len(forwarded_for) > 0 THEN "ip:" \o Strip(forwarded_for[1])
    ELSE "ip:" \o client_host

\* `while request_times and request_times[0] < cutoff_time: popleft()`
RECURSIVE drop_old(_, _)
drop_old(request_times, cutoff_time) ==
    IF Len(request_times) > 0 /\ request_times[1] < cutoff_time
    THEN drop_old(Tail(request_times), cutoff_time)
    ELSE request_times

\* _cleanup_old_requests: the histories pruned, the empty ones removed
_cleanup_old_requests(reqs, time) ==
    [id \in {i \in DOMAIN reqs : drop_old(reqs[i], time - max_window) # <<>>} |->
        drop_old(reqs[id], time - max_window)]

\* the histories after the periodic clean-up of check_rate_limit
cleaned(reqs, time, cleanup_at) ==
    IF time - cleanup_at > cleanup_interval THEN _cleanup_old_requests(reqs, time)
    ELSE reqs

\* `self.requests[identifier]` of a defaultdict(deque)
history_of(reqs, identifier) ==
    IF identifier \in DOMAIN reqs THEN reqs[identifier] ELSE <<>>

\* the history of the identifier with the requests before the window removed
request_times_of(reqs, identifier, limit_type, time) ==
    drop_old(history_of(reqs, identifier), time - limit_rule(limit_type)[2])

Put(reqs, identifier, request_times) ==
    [id \in DOMAIN reqs \cup {identifier} |->
        IF id = identifier THEN request_times ELSE reqs[id]]

over_limit_past(request_times, limit_type) ==
    Len(request_times) > limit_rule(limit_type)[1]

\* `len(request_times) >= max_requests`
over_limit(request_times, limit_type) ==
    Len(request_times) >= limit_rule(limit_type)[1]

\* RateLimiter.check_rate_limit: <<allowed, info>>, request_times being the
\* pruned history of the identifier
rate_limit_answer(request_times, limit_type, time) ==
    IF over_limit(request_times, limit_type)
    THEN [allowed |-> FALSE, limit |-> limit_rule(limit_type)[1],
          window |-> limit_rule(limit_type)[2], current |-> Len(request_times),
          retry_after |-> request_times[1] + limit_rule(limit_type)[2] - time,
          remaining |-> 0]
    ELSE [allowed |-> TRUE, limit |-> limit_rule(limit_type)[1],
          window |-> limit_rule(limit_type)[2], current |-> Len(request_times) + 1,
          retry_after |-> 0,
          remaining |-> limit_rule(limit_type)[1] - (Len(request_times) + 1)]

\* the histories after RateLimiter.check_rate_limit
requests_after(reqs, identifier, request_times, limit_type, time) ==
    Put(reqs, identifier,
        IF over_limit(request_times, limit_type) THEN request_times
        ELSE Append(request_times, time))

\* the module's check_rate_limit: the info, or HTTP 429
LimitRet(identifier, limit_type, info) ==
    [identifier |-> identifier, limit_type |-> limit_type,
     code |-> IF info.allowed THEN 200 ELSE 429, info |-> info]

\* the callers: one user on the parse and upload endpoints
Callers ==
    {[user_id |-> "u1", client_host |-> "10.0.0.1", forwarded_for |-> <<>>,
      real_ip |-> "", limit_type |-> "parse"],
     [user_id |-> "u1", client_host |-> "10.0.0.1",
      forwarded_for |-> <<" 10.0.0.7 ", "10.0.0.1">>, real_ip |-> "",
      limit_type |-> "upload"]}

\* what time.time() advances by between two calls
Advances == {60, 301}
MaxTime == 361

\* the allowed requests not older than their window
within_window(bag, time) ==
    [e \in {x \in DOMAIN bag : x.ts >= time - limit_rule(x.limit_type)[2]} |-> bag[e]]

AllowedEntry(identifier, limit_type, time) ==
    [identifier |-> identifier, limit_type |-> limit_type, ts |-> time]

noted(bag, e) ==
    [x \in DOMAIN bag \cup {e} |-> IF x \in DOMAIN bag THEN bag[x] + (IF x = e THEN 1 ELSE 0) ELSE 1]

LimiterInit == LimiterIdle /\ AudioIdle /\ HistoryIdle /\ CoreIdle /\ ExtraIdle

\* time passes
Tick ==
    \E d \in Advances :
        /\ current_time + d <= MaxTime
        /\ current_time' = current_time + d
        /\ allowed' = within_window(allowed, current_time + d)
        /\ UNCHANGED <<requests, last_cleanup, limit_ret, audio_vars, history_vars,
                       core_vars, extra_vars>>

\* one call of the module's check_rate_limit(request, user_id, limit_type)
CheckAt(identifier, limit_type, request_times) ==
    /\ limit_ret' = LimitRet(identifier, limit_type,
                             rate_limit_answer(request_times, limit_type, current_time))
    /\ requests' = requests_after(cleaned(requests, current_time, last_cleanup),
                                  identifier, request_times, limit_type, current_time)
    /\ last_cleanup' = IF current_time - last_cleanup > cleanup_interval
                       THEN current_time ELSE last_cleanup
    /\ allowed' = IF rate_limit_answer(request_times, limit_type, current_time).allowed
                  THEN noted(allowed, AllowedEntry(identifier, limit_type, current_time))
                  ELSE allowed
    /\ UNCHANGED <<current_time, audio_vars, history_vars, core_vars, extra_vars>>

CheckRateLimit ==
    \E c \in Callers :
        \E identifier \in {get_identifier(c.user_id, c.client_host, c.forwarded_for,
                                          c.real_ip)} :
            CheckAt(identifier, c.limit_type,
                    request_times_of(cleaned(requests, current_time, last_cleanup),
                                     identifier, c.limit_type, current_time))

NextLimiter == Tick \/ CheckRateLimit

SpecLimiter == LimiterInit /\ [][NextLimiter]_vars

(***************************************************************************)
(* app/main.py : update_meal, update_exercise, update_weight, delete_entry *)
(***************************************************************************)
table_map == [meal |-> "meals", exercise |-> "exercises", weight |-> "weights"]

HistoryRow(user_id, value) == [user_id |-> user_id, value |-> value]

\* `.select("user_id").eq("id", entry_id).single().execute()`: the row, no
\* data, or an exception of the client. lookup tells whether the store
\* answers, missing_row what the client's single() does when no row matches
\* (it hands back no data, or raises)
select_single(rows, entry_id, lookup, missing_row) ==
    IF lookup = "raise" THEN [kind |-> "raise", user_id |-> ""]
    ELSE IF entry_id \notin DOMAIN rows
         THEN [kind |-> missing_row, user_id |-> ""]
    ELSE [kind |-> "row", user_id |-> rows[entry_id].user_id]

\* `not existing.data or existing.data["user_id"] != user.id` is false
owned_by(existing, user_id) == existing.kind = "row" /\ existing.user_id = user_id

\* the status an update or delete handler answers with
history_code(existing, user_id, write_ok) ==
    IF existing.kind = "raise" THEN 500
    ELSE IF ~owned_by(existing, user_id) THEN 404
    ELSE IF ~write_ok THEN 500
    ELSE 200

\* `.update({...}).eq("id", entry_id).execute()`
updated(rows, entry_id, value) ==
    [id \in DOMAIN rows |->
        IF id = entry_id THEN HistoryRow(rows[id].user_id, value) ELSE rows[id]]

\* `.delete().eq("id", entry_id).execute()`
deleted(rows, entry_id) == [id \in DOMAIN rows \ {entry_id} |-> rows[id]]

HistoryReq(op, entry_type, entry_id, user_id, lookup, missing_row, write_ok) ==
    [op |-> op, entry_type |-> entry_type, entry_id |-> entry_id, user_id |-> user_id,
     lookup |-> lookup, missing_row |-> missing_row, write_ok |-> write_ok]

HistoryRet(code) == [status |-> "http", code |-> code]

HistoryUsers == {"u1", "u2"}
EntryIds == {"m1", "m2", "e1", "w1", "zz"}
EntryValues == {1}

\* what the calls of a handler meet: <<lookup, missing_row, write_ok>>
StoreOutcomes ==
    {<<"ok", "none", TRUE>>, <<"ok", "raise", TRUE>>, <<"raise", "none", TRUE>>,
     <<"ok", "none", FALSE>>}

\* the rows the two users have logged
StoredRows ==
    [meals |-> [id \in {"m1", "m2"} |->
                   IF id = "m1" THEN HistoryRow("u1", 0) ELSE HistoryRow("u2", 0)],
     exercises |-> [id \in {"e1"} |-> HistoryRow("u2", 0)],
     weights |-> [id \in {"w1"} |-> HistoryRow("u1", 0)]]

HistoryInit ==
    /\ tables = StoredRows
    /\ history_req = Pending
    /\ history_ret = Pending
    /\ AudioIdle /\ LimiterIdle /\ CoreIdle /\ ExtraIdle

\* update_meal, update_exercise and update_weight have one body, each on its
\* own table
UpdateEntry(entry_type, r, code) ==
    /\ history_req' = r
    /\ history_ret' = HistoryRet(code)
    /\ tables' = IF code = 200
                 THEN [tables EXCEPT ![table_map[entry_type]] =
                          updated(@, r.entry_id, r.value)]
                 ELSE tables
    /\ UNCHANGED <<audio_vars, limiter_vars, core_vars, extra_vars>>

UpdateRequests(entry_type) ==
    {[value |-> v] @@ HistoryReq("update", entry_type, id, u, o[1], o[2], o[3]) :
        v \in EntryValues, id \in EntryIds, u \in HistoryUsers, o \in StoreOutcomes}

UpdateOn(entry_type) ==
    \E r \in UpdateRequests(entry_type) :
        UpdateEntry(entry_type, r,
                    history_code(select_single(tables[table_map[entry_type]], r.entry_id,
                                               r.lookup, r.missing_row),
                                 r.user_id, r.write_ok))

UpdateMeal == UpdateOn("meal")

UpdateExerciseEntry == UpdateOn("exercise")

UpdateWeight == UpdateOn("weight")

DeleteAt(r, code) ==
    /\ history_req' = r
    /\ history_ret' = HistoryRet(code)
    /\ tables' = IF code = 200
                 THEN [tables EXCEPT ![table_map[r.entry_type]] = deleted(@, r.entry_id)]
                 ELSE tables
    /\ UNCHANGED <<audio_vars, limiter_vars, core_vars, extra_vars>>

DeleteEntry ==
    \E entry_type \in {"meal", "exercise", "weight", "photo"}, id \in EntryIds,
       u \in HistoryUsers, o \in StoreOutcomes :
        DeleteAt(HistoryReq("delete", entry_type, id, u, o[1], o[2], o[3]),
                 IF entry_type \notin DOMAIN table_map THEN 400
                 ELSE history_code(select_single(tables[table_map[entry_type]], id,
                                                 o[1], o[2]),
                                   u, o[3]))

NextHistory == UpdateMeal \/ UpdateExerciseEntry \/ UpdateWeight \/ DeleteEntry

SpecHistory == HistoryInit /\ [][NextHistory]_vars

(***************************************************************************)
(* Functions of app/main.py and app/validation.py called on their own      *)
(***************************************************************************)
\* the time phrases a tool call may carry
TimePhrases ==
    {"", "yesterday", "Yesterday evening", "yesterday morning", "yesterday for lunch",
     "yesterday at dinner", "yesterday afternoon", "this morning", "at noon", "tonight",
     "2 hours ago", "just now"}

\* base times: shortly before and after midnight, and mid-morning
BaseTimes ==
    {2 * 86400 - 5, 2 * 86400 + 30, 3 * 86400 + 10 * 3600 + 61,
     5 * 86400 + 12 * 3600, 7 * 86400 + 23 * 3600 + 59 * 60 + 59}

TimeCalls ==
    {[fn |-> "parse_relative_time", time_mentioned |-> p, base_time |-> b] :
        p \in TimePhrases, b \in BaseTimes}

\* validation.py's limits, in hundredths of a kilogram
MIN_WEIGHT_KG == 2000
MAX_WEIGHT_KG == 50000

\* validate_weight: the exception, or round(weight_kg, 1) in tenths
validate_weight(weight_kg) ==
    IF ~is_number(weight_kg) THEN [raised |-> TRUE, value |-> 0]
    ELSE IF weight_kg.v < MIN_WEIGHT_KG THEN [raised |-> TRUE, value |-> 0]
    ELSE IF weight_kg.v > MAX_WEIGHT_KG THEN [raised |-> TRUE, value |-> 0]
    ELSE [raised |-> FALSE, value |-> RoundHalfEven(weight_kg.v, 10)]

\* POST /log/weight: the response code and the weights stored
log_weight(weight_kg, insert_ok) ==
    IF validate_weight(weight_kg).raised THEN [code |-> 422, stored |-> <<>>]
    ELSE IF ~insert_ok THEN [code |-> 500, stored |-> <<>>]
    ELSE [code |-> 200, stored |-> <<validate_weight(weight_kg).value>>]

\* the weights the coach's log_weight tool stores for the same value
tool_stored(tool_result) ==
    [i \in 1..Len(tool_result.records) |-> tool_result.records[i].value]

\* weights in hundredths of a kilogram, on both sides of each limit
WeightValues ==
    {Num(-500), Num(0), Num(1999), Num(2000), Num(5012), Num(7055), Num(30000),
     Num(30001), Num(45000), Num(50000), Num(50001)}

WeightCalls ==
    {[fn |-> "log_weight", weight_kg |-> w, insert_ok |-> ok] :
        w \in WeightValues, ok \in BOOLEAN}

not_calc_vars == <<core_vars, audio_vars, limiter_vars, history_vars, jobs_vars, meals_vars>>

NotCalcIdle == CoreIdle /\ AudioIdle /\ LimiterIdle /\ HistoryIdle /\ JobsIdle /\ MealsIdle

CalcInit ==
    /\ call_req \in TimeCalls \cup WeightCalls
    /\ call_ret = Pending
    /\ NotCalcIdle

ParseRelativeTime ==
    /\ call_ret = Pending
    /\ call_req.fn = "parse_relative_time"
    /\ call_ret' = [status |-> "ok",
                    value |-> parse_relative_time(call_req.time_mentioned,
                                                  call_req.base_time)]
    /\ UNCHANGED <<call_req, not_calc_vars>>

\* one weight handed to POST /log/weight and to the coach's log_weight tool
LogWeight ==
    /\ call_ret = Pending
    /\ call_req.fn = "log_weight"
    /\ call_ret' = [status |-> "ok",
                    endpoint |-> log_weight(call_req.weight_kg, call_req.insert_ok),
                    tool |-> tool_stored(log_weight_tool(
                                 ToolUse("log_weight", "", call_req.weight_kg, "", ""),
                                 UserId, 1, StartTime, call_req.insert_ok))]
    /\ UNCHANGED <<call_req, not_calc_vars>>

NextCalc == ParseRelativeTime \/ LogWeight

SpecCalc == CalcInit /\ [][NextCalc]_vars

(***************************************************************************)
(* worker/main.py: run_worker polls event_bus and hands each row to        *)
(* process_job                                                             *)
(***************************************************************************)
MaxJobs == 2

\* how often, for one event, the processed_at update may fail after the insert
MaxLostUpdates == 1

JobIds == 1..MaxJobs

\* the payload main.py's parse endpoints write with their events
AnalyticsPayload == {"text_length", "confidence", "items_found"}

\* the rows event_bus may hold: jobs carrying what the worker reads, and the
\* events the parse endpoints insert
EventRows ==
    {[type |-> "parse_meal_image", payload |-> {"image_url", "hints"}, processed |-> FALSE],
     [type |-> "parse_meal_text", payload |-> {"text"}, processed |-> FALSE],
     [type |-> "parse_meal_text", payload |-> AnalyticsPayload, processed |-> FALSE],
     [type |-> "parse_meal_audio", payload |-> AnalyticsPayload, processed |-> FALSE]}

\* the payload key a branch of process_job subscripts ("none": no branch)
payload_key(job_type) ==
    IF job_type = "parse_meal_image" THEN "image_url"
    ELSE IF job_type = "parse_meal_text" THEN "text"
    ELSE "none"

\* one run of process_job on a row: which steps completed; an exception at any
\* step skips the rest and is swallowed by the handler's except clause
process_job_marking(row, model_ok, insert_ok, update_ok) ==
    [model_done |-> payload_key(row.type) \in row.payload /\ model_ok,
     inserted |-> payload_key(row.type) \in row.payload /\ model_ok /\ insert_ok,
     marked |-> TRUE,
     raised |-> FALSE]

process_job(row, model_ok, insert_ok, update_ok) ==
    [model_done |-> payload_key(row.type) \in row.payload /\ model_ok,
     inserted |-> payload_key(row.type) \in row.payload /\ model_ok /\ insert_ok,
     marked |-> /\ \/ payload_key(row.type) = "none"
                   \/ payload_key(row.type) \in row.payload /\ model_ok /\ insert_ok
                /\ update_ok,
     raised |-> ~ /\ \/ payload_key(row.type) = "none"
                     \/ payload_key(row.type) \in row.payload /\ model_ok /\ insert_ok
                  /\ update_ok]

\* select("*").is_("processed_at", "null"): the rows a poll may return
Unprocessed == {j \in JobIds : ~event_bus[j].processed}

not_jobs_vars == <<core_vars, audio_vars, limiter_vars, history_vars, calc_vars, meals_vars>>

NotJobsIdle == CoreIdle /\ AudioIdle /\ LimiterIdle /\ HistoryIdle /\ CalcIdle /\ MealsIdle

JobsInit ==
    /\ event_bus \in [JobIds -> EventRows]
    /\ job_meals = [j \in JobIds |-> 0]
    /\ loop_pc = "poll"
    /\ fetched = 0
    /\ last_attempt = Pending
    /\ NotJobsIdle

\* run_worker: the select raised; the loop logs, sleeps five seconds, goes on
PollRaises ==
    /\ loop_pc = "poll"
    /\ loop_pc' = "sleep"
    /\ UNCHANGED <<event_bus, job_meals, fetched, last_attempt, not_jobs_vars>>

\* run_worker: no unprocessed row; the loop sleeps one second
PollEmpty ==
    /\ loop_pc = "poll"
    /\ Unprocessed = {}
    /\ loop_pc' = "sleep"
    /\ UNCHANGED <<event_bus, job_meals, fetched, last_attempt, not_jobs_vars>>

\* run_worker: limit(1) with no order returns one of the unprocessed rows
PollFetch ==
    /\ loop_pc = "poll"
    /\ \E j \in Unprocessed : fetched' = j
    /\ loop_pc' = "job"
    /\ UNCHANGED <<event_bus, job_meals, last_attempt, not_jobs_vars>>

Wake ==
    /\ loop_pc = "sleep"
    /\ loop_pc' = "poll"
    /\ UNCHANGED <<event_bus, job_meals, fetched, last_attempt, not_jobs_vars>>

ProcessWith(r) ==
    /\ (r.inserted /\ ~r.marked) => job_meals[fetched] < MaxLostUpdates
    /\ job_meals' = [job_meals EXCEPT ![fetched] = @ + (IF r.inserted THEN 1 ELSE 0)]
    /\ event_bus' = [event_bus EXCEPT ![fetched].processed = r.marked]
    /\ last_attempt' = [status |-> "ok", job |-> fetched, model_done |-> r.model_done,
                        inserted |-> r.inserted, marked |-> r.marked, raised |-> r.raised]

\* process_job on the fetched row, then back to the head of the loop
ProcessJob ==
    /\ loop_pc = "job"
    /\ \E model_ok, insert_ok, update_ok \in BOOLEAN :
           ProcessWith(process_job(event_bus[fetched], model_ok, insert_ok, update_ok))
    /\ loop_pc' = "poll"
    /\ UNCHANGED <<fetched, not_jobs_vars>>

\* process_job when the model answers and both writes go through
ProcessAnswered ==
    /\ loop_pc = "job"
    /\ ProcessWith(process_job(event_bus[fetched], TRUE, TRUE, TRUE))
    /\ loop_pc' = "poll"
    /\ UNCHANGED <<fetched, not_jobs_vars>>

NextJobs == PollRaises \/ PollEmpty \/ PollFetch \/ Wake \/ ProcessJob

SpecJobs == JobsInit /\ [][NextJobs]_vars

\* the loop keeps running, polls keep returning rows, and the model and the
\* store keep answering
SpecJobsFair ==
    /\ JobsInit
    /\ [][NextJobs]_vars
    /\ WF_vars(NextJobs)
    /\ SF_vars(PollFetch)
    /\ SF_vars(ProcessAnswered)

(***************************************************************************)
(* The writers of the meals table: POST /log/meal, the coach's log_meal    *)
(* tool, the worker's process_job and PUT /history/meal/{entry_id}         *)
(***************************************************************************)
MaxStoredMeals == 2

EggItem ==
    [name |-> "egg", qty |-> 1000, unit |-> "large", kcal |-> 70,
     protein_g |-> 60, carbs_g |-> 10, fat_g |-> 50]

\* an item validate_calories refuses
FeastItem ==
    [name |-> "feast", qty |-> 1000, unit |-> "serving", kcal |-> 50001,
     protein_g |-> 60, carbs_g |-> 10, fat_g |-> 50]

\* the item lists a client or the model may send
ItemLists == {<<>>, <<PizzaItem>>, <<PizzaItem, EggItem>>, <<FeastItem>>}

\* the totals sent along with a list of items: their sum, or another figure
TotalsFor(items) == {sum_totals(items), sum_totals(<<EggItem>>)}

\* validate_calories and validate_macros on one item: TRUE iff they raise
item_refused(item) ==
    \/ item.kcal < 0 \/ item.kcal > 50000
    \/ \E f \in {"protein_g", "carbs_g", "fat_g"} : item[f] < 0 \/ item[f] > 10000

\* validate_meal_items: TRUE iff it raises
validate_meal_items_raises(items) ==
    \/ Len(items) = 0
    \/ \E i \in 1..Len(items) : item_refused(items[i])

StoredMeal(user_id, items, totals) ==
    [user_id |-> user_id, items |-> items, totals |-> totals]

\* POST /log/meal: the response code and the row inserted
log_meal(user_id, items, totals, insert_ok) ==
    IF validate_meal_items_raises(items) THEN [code |-> 422, rows |-> <<>>]
    ELSE IF ~insert_ok THEN [code |-> 500, rows |-> <<>>]
    ELSE [code |-> 200, rows |-> <<StoredMeal(user_id, items, totals)>>]

\* the row the log_meal tool inserts for what text_nutrition.parse returned
tool_meal(user_id, parsed, tool_result) ==
    IF tool_result.records = <<>> THEN <<>>
    ELSE <<StoredMeal(user_id, parsed.items, parsed.totals)>>

\* PUT /history/meal/{entry_id} on a stored meal: items are replaced, totals
\* are not part of the update
update_meal(meal, user_id, items, write_ok) ==
    IF meal.user_id # user_id THEN [code |-> 404, meal |-> meal]
    ELSE IF ~write_ok THEN [code |-> 500, meal |-> meal]
    ELSE [code |-> 200, meal |-> [meal EXCEPT !.items = items]]

not_meals_vars == <<core_vars, audio_vars, limiter_vars, history_vars, calc_vars, jobs_vars>>

NotMealsIdle == CoreIdle /\ AudioIdle /\ LimiterIdle /\ HistoryIdle /\ CalcIdle /\ JobsIdle

MealsInit ==
    /\ meals = <<>>
    /\ meal_ret = Pending
    /\ NotMealsIdle

Store(op, code, rows) ==
    /\ meals' = meals \o rows
    /\ meal_ret' = [status |-> "ok", op |-> op, code |-> code, stored |-> Len(rows)]
    /\ UNCHANGED not_meals_vars

LogMeal ==
    /\ Len(meals) < MaxStoredMeals
    /\ \E user_id \in HistoryUsers, items \in ItemLists, insert_ok \in BOOLEAN :
         \E totals \in TotalsFor(items) :
             Store("log_meal", log_meal(user_id, items, totals, insert_ok).code,
                   log_meal(user_id, items, totals, insert_ok).rows)

\* execute_coach_tool("log_meal", ...) during a chat turn
CoachLogMeal ==
    /\ Len(meals) < MaxStoredMeals
    /\ \E e \in ToolEncounters, insert_ok \in BOOLEAN :
         \E parsed \in {text_parse("5 slices pizza", e[1], e[2], FALSE)} :
             Store("coach", 200,
                   tool_meal(UserId, parsed,
                             log_meal_tool(ToolUse("log_meal", " 5 slices pizza ", JMissing,
                                                   "", "for Lunch"),
                                           UserId, Len(meals) + 1, StartTime, parsed,
                                           insert_ok)))

\* process_job: the items and totals of the model's answer are inserted as
\* they come
WorkerInsert ==
    /\ Len(meals) < MaxStoredMeals
    /\ \E items \in ItemLists, insert_ok \in BOOLEAN :
         \E totals \in TotalsFor(items) :
             Store("worker", 200,
                   IF insert_ok THEN <<StoredMeal(UserId, items, totals)>> ELSE <<>>)

UpdateStoredMeal ==
    \E i \in 1..Len(meals), user_id \in HistoryUsers, items \in ItemLists \ {<<>>},
       write_ok \in BOOLEAN :
        \E r \in {update_meal(meals[i], user_id, items, write_ok)} :
            /\ meals' = [meals EXCEPT ![i] = r.meal]
            /\ meal_ret' = [status |-> "ok", op |-> "update_meal", code |-> r.code, stored |-> 0]
            /\ UNCHANGED not_meals_vars

NextMeals == LogMeal \/ CoachLogMeal \/ WorkerInsert \/ UpdateStoredMeal

SpecMeals == MealsInit /\ [][NextMeals]_vars

(***************************************************************************)
(* Properties of the parsers (checked under SpecParse)                     *)
(***************************************************************************)
ParserReturned(ops) == parse_req.op \in ops /\ parse_ret.status = "ok"

\* the sum of one field over the items of a result
ItemSum(items, field) ==
    LET partial[i \in 0..Len(items)] ==
            IF i = 0 THEN 0 ELSE partial[i - 1] + items[i][field]
    IN  partial[Len(items)]

\* C1: every MealParse returned by TextNutrition.parse or VisionNutrition.parse,
\* on the model path and on every fallback path, has totals.kcal equal to the
\* sum of its items' kcal and each macro total equal to the sum of that macro
\* over its items, exactly.
C1_TotalsAreItemSums ==
    ParserReturned({"text", "vision"}) =>
        /\ parse_ret.totals.kcal = ItemSum(parse_ret.items, "kcal")
        /\ parse_ret.totals.protein_g = ItemSum(parse_ret.items, "protein_g")
        /\ parse_ret.totals.carbs_g = ItemSum(parse_ret.items, "carbs_g")
        /\ parse_ret.totals.fat_g = ItemSum(parse_ret.items, "fat_g")

\* a model answer with two items was converted and summed
C1_Witness ==
    /\ ParserReturned({"text"})
    /\ parse_ret.branch = "model"
    /\ Len(parse_ret.items) = 2
    /\ parse_ret.totals.kcal = 375
    /\ parse_ret.totals.protein_g = 123

Coupled == parse_ret.low_confidence = (parse_ret.confidence < 60)

HasQuestions == parse_ret.qtag = "list" /\ Len(parse_ret.questions) > 0

\* C3 as stated: every result of TextNutrition.parse, VisionNutrition.parse and
\* parse_exercise_text has a non-empty questions list when confidence < 0.8 and
\* an empty or absent one when confidence >= 0.8.
C3_QuestionPresence ==
    ParserReturned({"text", "vision", "exercise"}) =>
        /\ parse_ret.confidence < 80 => HasQuestions
        /\ parse_ret.confidence >= 80 => ~HasQuestions

\* C4 as stated: whatever the upstream model does, the parsers hand back a
\* result and no exception leaves them.
C4_NoExceptionEscapes ==
    parse_req.op \in {"text", "vision", "exercise"} => parse_ret.status # "raise"

\* the model call of the request raised
CallFailed ==
    /\ parse_req.op = "text" \/ StartsWith(parse_req.image_url, "data:image")
    /\ claude_call(parse_req.up) = "raise"

\* the model call of the request answered with something unusable
MalformedAnswer ==
    /\ parse_req.op = "text" \/ StartsWith(parse_req.image_url, "data:image")
    /\ claude_call(parse_req.up) # "raise"
    /\ \/ claude_call(parse_req.up) = "mock"
       \/ parse_req.body.kind # "object"
       \/ /\ parse_req.body.items_tag = "list"
          /\ items_error(parse_req.body.items) # "none"
       \/ /\ parse_req.body.items_tag = "list"
          /\ Len(parse_req.body.items) > 0
          /\ conv_error(parse_req.body.confidence) # "none"

\* C5 as stated: in TextNutrition.parse and VisionNutrition.parse a malformed
\* model response yields confidence exactly 0.1 and an upstream call failure a
\* confidence in [0.4, 0.5], so the two classes never share a confidence.
C5_FailureClassesDiffer ==
    ParserReturned({"text", "vision"}) =>
        /\ MalformedAnswer => parse_ret.confidence = 10
        /\ CallFailed => (40 <= parse_ret.confidence /\ parse_ret.confidence <= 50)

(***************************************************************************)
(* Properties of SafetyGuard.check (checked under SpecGuard)               *)
(***************************************************************************)
GuardReturned == guard_ret # NoGuard

\* C7 as stated: every decision of SafetyGuard.check, built from the model's
\* classification or from the keyword fallback, has at least one disclaimer
\* when allow is false.
C7_BlockedHasDisclaimer ==
    (GuardReturned /\ guard_ret.allow = "false") =>
        (guard_ret.dtag = "list" /\ Len(guard_ret.disclaimers) >= 1)

\* the phrases and tokens as the specification lists them
ClaimedPhrases ==
    {"should i take", "can i stop", "change my dose", "increase dose", "decrease dose"}

ClaimedKeywords ==
    {"dose", "medication", "side effect", "nausea", "vomiting", "heart", "blood pressure",
     "diabetes", "pregnant", "surgery", "ozempic", "wegovy", "mounjaro", "zepbound",
     "semaglutide", "tirzepatide"}

ClaimedCalories == {"1200", "1000", "800", "500"}

HasBlockingPhrase(message) == \E p \in ClaimedPhrases : Contains(p, Lower(message))

HasKeywordOrCalories(message) ==
    \/ \E k \in ClaimedKeywords : Contains(k, Lower(message))
    \/ \E c \in ClaimedCalories : Contains(c, message)

\* the classification call raised, or its answer was not valid JSON
ClassificationFailed ==
    \/ claude_call(guard_req.up) \in {"raise", "mock"}
    \/ guard_req.body.kind = "notjson"

\* C8: whenever the model classification fails (the call raises or the answer
\* is not valid JSON), SafetyGuard.check returns allow = false for every
\* message that contains one of the blocking phrases in any letter case.
C8_FallbackBlocksPhrases ==
    (GuardReturned /\ ClassificationFailed /\ HasBlockingPhrase(guard_req.message)) =>
        guard_ret.allow = "false"

\* the classification call raised and a phrase written with capitals was blocked
C8_Witness ==
    /\ GuardReturned
    /\ claude_call(guard_req.up) = "raise"
    /\ Contains("Can I Stop", guard_req.message)
    /\ guard_ret.allow = "false"

\* C9: under the keyword fallback allow is false if and only if the lower-cased
\* message contains a blocking phrase; a message with medical keywords or
\* extreme-calorie tokens and no blocking phrase is allowed and carries at
\* least one disclaimer.
C9_OnlyPhrasesBlock ==
    (GuardReturned /\ guard_ret.path = "fallback") =>
        /\ (guard_ret.allow = "false") <=> HasBlockingPhrase(guard_req.message)
        /\ guard_ret.allow \in {"true", "false"}
        /\ (HasKeywordOrCalories(guard_req.message) /\ ~HasBlockingPhrase(guard_req.message))
               => (guard_ret.allow = "true" /\ Len(guard_ret.disclaimers) >= 1)

\* a message naming a medication and a calorie target went through the
\* fallback, allowed, with both disclaimers
C9_Witness ==
    /\ GuardReturned
    /\ guard_ret.path = "fallback"
    /\ Contains("ozempic", guard_req.message)
    /\ Contains("1200", guard_req.message)
    /\ guard_ret.allow = "true"
    /\ Len(guard_ret.disclaimers) = 2

(***************************************************************************)
(* Properties of the coach handlers (checked under SpecCoach)              *)
(***************************************************************************)
\* C10: in coach_ask and agentic_coach_chat the safety check is over before a
\* coaching model call is issued; when it returns allow = false no coaching
\* model call is made, no tool is executed, no record is inserted and the
\* response lists no action.
C10_GuardBeforeCoaching ==
    /\ coach_calls > 0 => (guard_result # NoGuard /\ guard_result.allow # "false")
    /\ coach_pc \in {"model", "blocks"} => guard_result # NoGuard
    /\ guard_result.allow = "false" =>
           /\ coach_pc = "done"
           /\ coach_calls = 0
           /\ tool_execs = 0
           /\ records = <<>>
           /\ actions_taken = <<>>
           /\ response.actions_taken = <<>>
           /\ response.status \in {"refused", "error500"}

\* agentic_coach_chat was refused by the guard and answered the refusal
C10_Witness ==
    /\ coach_req.handler = "agentic_coach_chat"
    /\ guard_result.allow = "false"
    /\ response.status = "refused"
    /\ Len(response.disclaimers) >= 1

(***************************************************************************)
(* Properties of call_claude_text (checked under SpecWorker)               *)
(***************************************************************************)
\* the positions of model_calls at which a call of the model started
Starts(model) == {i \in 1..Len(model_calls) : model_calls[i] = <<model, "start">>}

CheapConfidence == conv_value(cheap_result.confidence, 100)

CheapIsLow == cheap_result.kind = "object" /\ cheap_result.confidence.t = "num"
              /\ CheapConfidence < 60

CheapIsHigh == cheap_result.kind = "object" /\ comparable(cheap_result)
               /\ CheapConfidence >= 60

\* C6: in call_claude_text a cheap-tier result with confidence < 0.6 makes the
\* capable tier be called exactly once, only after the cheap call completed,
\* and the capable result is what is returned whatever its confidence; a cheap
\* result with confidence >= 0.6 triggers no second call; no request issues
\* more than two model calls.
C6_EscalatesOnce ==
    /\ Cardinality(Starts("haiku")) <= 1
    /\ Cardinality(Starts("sonnet")) <= 1
    /\ \A i \in Starts("sonnet") :
           /\ \E j \in 1..(i - 1) : model_calls[j] = <<"haiku", "done">>
           /\ CheapIsLow
    /\ (worker_pc = "done" /\ CheapIsLow) => Cardinality(Starts("sonnet")) = 1
    /\ CheapIsHigh => Starts("sonnet") = {}
    /\ (worker_pc = "done" /\ Starts("sonnet") # {} /\ worker_ret.status = "ok") =>
           worker_ret.result = capable_result
    /\ (worker_pc = "done" /\ capable_result.kind = "object" /\ tool_runs # <<>>) =>
           worker_ret = WorkerRet("ok", capable_result)

\* a cheap answer of confidence 0.4 was followed by one capable call whose
\* answer, itself of confidence 0.4, was returned
C6_Witness ==
    /\ worker_pc = "done"
    /\ cheap_result.confidence = Num(40)
    /\ cheap_result.items = "a"
    /\ Cardinality(Starts("sonnet")) = 1
    /\ capable_result.confidence = Num(40)
    /\ capable_result.items = "b"
    /\ worker_ret = WorkerRet("ok", capable_result)

(***************************************************************************)
(* Properties of the tool calls of one chat turn (checked under SpecCoach) *)
(***************************************************************************)
Blank(s) == \A i \in 1..Len(s) : IsSpace(CharAt(s, i))

\* the invalid arguments as the specification lists them; num in hundredths
ClaimedInvalid(block) ==
    CASE block.name = "log_weight" ->
             block.num.t # "num" \/ block.num.v < 2000 \/ block.num.v > 30000
      [] block.name = "log_exercise" ->
             \/ block.num.t # "num" \/ block.num.v <= 0 \/ block.num.v > 144000
             \/ Blank(block.desc) \/ Len(Strip(block.desc)) > 100
      [] block.name = "log_meal" ->
             Blank(block.desc) \/ Len(Strip(block.desc)) > 500
      [] OTHER -> TRUE

\* the positions of invocations that inserted a row, in the order of the turn
LoggedCalls == {i \in 1..Len(invocations) : invocations[i].row # 0}

ToolOfType(type) == "log_" \o type

C12_OneBaseTimePerTurn ==
    /\ \A i \in LoggedCalls :
           records[invocations[i].row].ts =
               isoformat(parse_relative_time(invocations[i].block.time_mentioned,
                                             request_time))
    /\ \A i, j \in LoggedCalls :
           invocations[i].block.time_mentioned = invocations[j].block.time_mentioned
               => records[invocations[i].row].ts = records[invocations[j].row].ts
    /\ coach_pc = "blocks" => request_time < now

\* a meal and an exercise, both "for Lunch", were stored with one timestamp,
\* 12:30 of the day of the request, twenty seconds and a midnight later
C12_Witness ==
    /\ Len(invocations) = 2
    /\ invocations[1].block.name = "log_meal"
    /\ invocations[2].block.name = "log_exercise"
    /\ invocations[1].block.time_mentioned = "for Lunch"
    /\ invocations[2].block.time_mentioned = "for Lunch"
    /\ invocations[1].row = 1
    /\ invocations[2].row = 2
    /\ records[1].ts = records[2].ts
    /\ records[1].ts = [date |-> 1, hour |-> 12, minute |-> 30, second |-> 0]
    /\ now >= request_time + 20
    /\ isoformat(now).date = 2

(***************************************************************************)
(* Properties of TextNutrition._fallback_parse (checked under SpecParse)   *)
(***************************************************************************)
FallbackDone == parse_req.op = "fallback" /\ parse_ret.status # "pending"

NoEntryMatches(text) ==
    \A i \in 1..Len(food_db) : ~_food_matches(food_db[i].name, Lower(text))

\* C13 as stated: for a text that matches no entry of the food table
\* _fallback_parse returns exactly one item, named 'unrecognized food', with
\* kcal, protein, carbs and fat zero whatever quantity or size words the text
\* has; and for every text it returns exactly one item and does not raise.
C13_SentinelAndNoRaise ==
    FallbackDone =>
        /\ parse_ret.status = "ok"
        /\ Len(parse_ret.items) = 1
        /\ NoEntryMatches(parse_req.text) =>
               /\ parse_ret.items[1].name = "unrecognized food"
               /\ parse_ret.items[1].kcal = 0
               /\ parse_ret.items[1].protein_g = 0
               /\ parse_ret.items[1].carbs_g = 0
               /\ parse_ret.items[1].fat_g = 0

\* the entry of the table a text matches first
FirstEntry(text) ==
    food_db[CHOOSE i \in 1..Len(food_db) :
                /\ _food_matches(food_db[i].name, Lower(text))
                /\ \A k \in 1..(i - 1) : ~_food_matches(food_db[k].name, Lower(text))]

\* item = base * multiplier / 1000 in every nutrition field (kcal in kcal,
\* macros in tenths of a gram, qty in thousandths, multiplier in thousandths)
ScaledBy(item, base, multiplier) ==
    /\ item.qty = base.qty * multiplier
    /\ item.kcal * 1000 = base.kcal * multiplier
    /\ item.protein_g * 1000 = base.protein_g * multiplier
    /\ item.carbs_g * 1000 = base.carbs_g * multiplier
    /\ item.fat_g * 1000 = base.fat_g * multiplier

\* C14 as stated: for a text that matches an entry of the food table the item
\* of the fallback matcher has qty, kcal, protein, carbs and fat equal to the
\* entry's base values times quantity_multiplier x size_multiplier, for every
\* entry and every combination of quantity and size words; '5 slices pizza'
\* yields kcal 1330 and qty 535.
C14_ScaledByCombinedMultiplier ==
    (FallbackDone /\ ~NoEntryMatches(parse_req.text)) =>
        /\ parse_ret.status = "ok"
        /\ ScaledBy(parse_ret.items[1], FirstEntry(parse_req.text),
                    quantity_multiplier(Lower(parse_req.text))
                        * size_multiplier(Lower(parse_req.text)))
        /\ parse_req.text = "5 slices pizza " =>
               parse_ret.items[1].kcal = 1330 /\ parse_ret.items[1].qty = 535000

(***************************************************************************)
(* Empty results and the sentinel (checked under SpecParse)                *)
(***************************************************************************)
\* the vision model answered a JSON object whose is_food is false
AnsweredNoFood ==
    /\ parse_req.op = "vision"
    /\ parse_ret.status # "pending"
    /\ StartsWith(parse_req.image_url, "data:image")
    /\ claude_call(parse_req.up) = "ok"
    /\ parse_req.body.kind = "object"
    /\ parse_req.body.is_food = "false"

\* C15: when the vision model's response parses as JSON and has
\* is_food=false, VisionNutrition.parse returns an empty item list, all-zero
\* totals, confidence exactly 0.0, low_confidence true and exactly one
\* non-empty question, whatever items or confidence the response carries.
C15_NoFoodResult ==
    AnsweredNoFood =>
        /\ parse_ret.status = "ok"
        /\ parse_ret.items = <<>>
        /\ parse_ret.totals = ZeroTotals
        /\ parse_ret.confidence = 0
        /\ parse_ret.low_confidence
        /\ parse_ret.qtag = "list"
        /\ Len(parse_ret.questions) = 1
        /\ parse_ret.questions[1] # ""

\* a response with is_food=false that also carries two items and confidence
\* 0.8 was answered with the no-food result
C15_Witness ==
    /\ AnsweredNoFood
    /\ Len(parse_req.body.items) = 2
    /\ parse_req.body.confidence = Num(80)
    /\ parse_ret.status = "ok"
    /\ parse_ret.items = <<>>

\* C16 as stated: for every MealParse returned by TextNutrition.parse or
\* VisionNutrition.parse, an empty item list comes with confidence 0 and
\* all-zero totals.
C16_EmptyMeansZeroConfidence ==
    (ParserReturned({"text", "vision"}) /\ parse_ret.items = <<>>) =>
        /\ parse_ret.confidence = 0
        /\ parse_ret.totals = ZeroTotals

HasSentinel ==
    \E i \in 1..Len(parse_ret.items) : parse_ret.items[i].name = "unrecognized food"

\* C20 as stated: whenever the result of TextNutrition.parse contains the
\* sentinel item 'unrecognized food' its confidence is 0.1, low_confidence is
\* true and the detailed re-description questions are attached, on the
\* call-failure path and on the malformed-response path alike.
C20_SentinelConfidence ==
    (ParserReturned({"text"}) /\ HasSentinel) =>
        /\ parse_ret.confidence = 10
        /\ parse_ret.low_confidence
        /\ Len(parse_ret.questions) = 3
        /\ parse_ret.questions[1] = "Could not recognize this food automatically."

(***************************************************************************)
(* Properties of the audio endpoints (checked under SpecAudio)             *)
(***************************************************************************)
\* no client can be had, or decoding, the temporary file or the service fails
TranscriptionFails(had_client, r) ==
    \/ ~client_after(had_client, r.api_key, r.ctor_ok)
    \/ r.speech.kind # "text"

\* the hint text if one was given and otherwise the fixed placeholder
HintOrPlaceholder(r) ==
    IF Nonempty(clean_hints(r.hints)) THEN clean_hints(r.hints).v ELSE UnableNotice

\* C17 as stated: transcribe_audio never propagates an exception and on any
\* decoding or speech-service failure returns a failure value (the plain
\* transcription endpoint answers 400); transcribe_meal_audio then returns the
\* user's hint text if one was given and otherwise the fixed placeholder, so
\* the text parser is always reached with a non-empty string.
C17_FailureDegrades ==
    [][/\ TranscribeAudioSimple =>
              /\ audio_ret'.code # 500
              /\ TranscriptionFails(client, audio_req) => audio_ret'.code = 400
       /\ (ParseMealAudio /\ audio_ret'.code # 422) =>
              /\ audio_ret'.text # ""
              /\ TranscriptionFails(client, audio_req) =>
                     audio_ret'.text = HintOrPlaceholder(audio_req)]_vars

(***************************************************************************)
(* Properties of the rate limiter (checked under SpecLimiter)              *)
(***************************************************************************)
\* how many allowed requests of the identifier and limit type lie within the
\* last window_seconds
AllowedCount(identifier, limit_type) ==
    LET es == {e \in DOMAIN allowed :
                  e.identifier = identifier /\ e.limit_type = limit_type}
        total[S \in SUBSET es] ==
            IF S = {} THEN 0
            ELSE LET e == CHOOSE x \in S : TRUE IN allowed[e] + total[S \ {e}]
    IN  total[es]

Identifiers ==
    {get_identifier(c.user_id, c.client_host, c.forwarded_for, c.real_ip) : c \in Callers}

\* C18: for each identifier and each limit type with rule (N requests, W
\* seconds) check_rate_limit never allows more than N requests whose
\* timestamps lie within an interval of W seconds, and a call that is denied
\* answers HTTP 429; the 31st parse request of a user within a minute is
\* rejected.
C18_NeverMoreThanLimit ==
    /\ \A identifier \in Identifiers, limit_type \in DOMAIN limits :
           AllowedCount(identifier, limit_type) <= limit_rule(limit_type)[1]
    /\ limit_ret # Pending => (limit_ret.code = 429) = ~limit_ret.info.allowed

\* thirty parse requests of the user were allowed within the minute and the
\* next one was answered 429
C18_Witness ==
    /\ limit_ret # Pending
    /\ limit_ret.identifier = "user:u1"
    /\ limit_ret.limit_type = "parse"
    /\ limit_ret.code = 429
    /\ AllowedCount("user:u1", "parse") = 30

\* C28 as stated: the quotas of the limit types are independent for one
\* user: a request is denied only when the user's own allowed requests of
\* that limit type within the window have reached that type's limit, so
\* requests of another type never use up the quota.
C28_QuotasIndependent ==
    (limit_ret # Pending /\ limit_ret.code = 429) =>
        AllowedCount(limit_ret.identifier, limit_ret.limit_type)
            >= limit_rule(limit_ret.limit_type)[1]

(***************************************************************************)
(* Properties of the history endpoints (checked under SpecHistory)         *)
(***************************************************************************)
\* the request is aimed at an entry the caller does not own, or at none
ForeignOrAbsent(rows, r) ==
    \/ r.entry_id \notin DOMAIN rows
    \/ rows[r.entry_id].user_id # r.user_id

\* every row owned by somebody else is what it was
OthersUnchanged(user_id) ==
    \A t \in DOMAIN tables : \A id \in DOMAIN tables[t] :
        tables[t][id].user_id # user_id =>
            id \in DOMAIN tables'[t] /\ tables'[t][id] = tables[t][id]

\* C19 as stated: an update or delete request of one user leaves every meal,
\* exercise and weight record owned by a different user unchanged; a request
\* aimed at an entry whose user_id differs from the caller's, or that does not
\* exist, returns 404 and modifies no record (the store answering its lookup).
C19_OthersUntouched ==
    [][/\ OthersUnchanged(history_req'.user_id)
       /\ (/\ history_req'.entry_type \in DOMAIN table_map
           /\ history_req'.lookup = "ok"
           /\ ForeignOrAbsent(tables[table_map[history_req'.entry_type]], history_req'))
              => (history_ret'.code = 404 /\ tables' = tables)]_vars

\* the sum of est_kcal over the exercises of a result
EstKcalSum(exercises) ==
    LET partial[i \in 0..Len(exercises)] ==
            IF i = 0 THEN 0 ELSE partial[i - 1] + exercises[i].est_kcal.v
    IN  partial[Len(exercises)]

\* C24 as stated: for every result of ExerciseEstimator.parse_exercise_text,
\* on the model path and on the fallback path, total_kcal equals the sum of
\* est_kcal over the listed exercises (numeric est_kcal values), recomputed
\* and not taken from the total the model reports.
C24_TotalKcalIsExerciseSum ==
    (/\ ParserReturned({"exercise"})
     /\ \A i \in 1..Len(parse_ret.exercises) : parse_ret.exercises[i].est_kcal.t = "num") =>
        parse_ret.total_kcal = Num(EstKcalSum(parse_ret.exercises))

\* the branch TextNutrition.parse takes on a response the model returned
BranchOfAnswer(body) ==
    IF text_response_error("ok", body) = "none" THEN "model"
    ELSE text_response_error("ok", body)

\* C29 as stated: a failure of log_tool_run after the model answered does not
\* change the outcome of the call: claude_call still returns the model's
\* response, and TextNutrition.parse takes the branch the response alone
\* decides, no fallback being taken because of the logging failure.
C29_LogFailureChangesNothing ==
    (/\ parse_req.op = "text"
     /\ parse_ret.status # "pending"
     /\ parse_req.up \in ModelAnswered) =>
        /\ claude_call(parse_req.up) = "ok"
        /\ parse_ret.branch = BranchOfAnswer(parse_req.body)

\* C25 as stated: at the end of every agentic_coach_chat turn the ids in the
\* actions_taken of the response are exactly the ids of the records inserted
\* during that turn, also when the turn fails after tool calls inserted
\* records.
C25_ActionsAreTheInsertedRecords ==
    (coach_req.handler = "agentic_coach_chat" /\ coach_pc = "done") =>
        /\ Len(response.actions_taken) = Len(records)
        /\ \A i \in 1..Len(records) : response.actions_taken[i].id = records[i].id

(***************************************************************************)
(* Properties of parse_relative_time (checked under SpecCalc)              *)
(***************************************************************************)
\* the hour and minute the claim names for a phrase that has 'yesterday'
NamedPartOfDay(time_lower) ==
    IF Contains("morning", time_lower) THEN <<8, 0>>
    ELSE IF Contains("lunch", time_lower) THEN <<12, 30>>
    ELSE IF ContainsAny({"dinner", "evening"}, time_lower) THEN <<19, 0>>
    ELSE <<12, 0>>

\* C21 as stated: for every time phrase that contains 'yesterday'
\* parse_relative_time returns a timestamp on the calendar day before the
\* base time, at the hour of the named part of the day (08:00 morning, 12:30
\* lunch, 19:00 dinner or evening, 12:00 otherwise).
C21_YesterdayIsTheDayBefore ==
    (/\ call_req # Pending
     /\ call_req.fn = "parse_relative_time"
     /\ call_ret # Pending
     /\ Contains("yesterday", Lower(call_req.time_mentioned))) =>
        /\ isoformat(call_ret.value).date = isoformat(call_req.base_time).date - 1
        /\ isoformat(call_ret.value).hour
               = NamedPartOfDay(Lower(call_req.time_mentioned))[1]
        /\ isoformat(call_ret.value).minute
               = NamedPartOfDay(Lower(call_req.time_mentioned))[2]
        /\ isoformat(call_ret.value).second = 0

(***************************************************************************)
(* Properties of the worker loop (checked under SpecJobs and SpecJobsFair) *)
(***************************************************************************)
Attempted == last_attempt # Pending

\* a failed attempt leaves the row unprocessed, open to a later poll, and the
\* loop able to go on
FailureKeepsTheJob ==
    /\ (Attempted /\ last_attempt.raised) =>
           /\ ~last_attempt.marked
           /\ last_attempt.job \in Unprocessed
           /\ loop_pc = "poll" => ENABLED PollFetch
    /\ ENABLED NextJobs

C26_EveryEventProcessed ==
    \A j \in JobIds : <>(event_bus[j].processed)

\* C27 as stated: each event_bus job results in at most one stored meal, also
\* when it is retried after the processed_at update failed.
C27_AtMostOneMeal ==
    \A j \in JobIds : job_meals[j] <= 1

(***************************************************************************)
(* Properties of the two weight paths (checked under SpecCalc)             *)
(***************************************************************************)
\* C30 as stated: a weight is accepted by POST /log/weight iff it is accepted
\* by the coach's log_weight tool, and when accepted both store the same
\* value, rounded to one decimal.
C30_SameWeightsAccepted ==
    (call_req # Pending /\ call_req.fn = "log_weight" /\ call_ret # Pending) =>
        call_ret.endpoint.stored = call_ret.tool

(***************************************************************************)
(* Properties of the stored meals (checked under SpecMeals)                *)
(***************************************************************************)
\* C23 as stated: for every stored meal, after any sequence of log_meal
\* requests, coach log_meal tool calls, worker inserts and update_meal
\* requests, the stored totals equal the elementwise sum of the stored items.
C23_StoredTotalsAreItemSums ==
    \A i \in 1..Len(meals) : meals[i].totals = sum_totals(meals[i].items)

====
